---- MODULE Spec2Model ----
(***************************************************************************)
(* A model of the synchronisation core of youdaonote-pull:                 *)
(*   youdaonote/sync.py           SyncManager, decide_action, backup       *)
(*   youdaonote/sync_metadata.py  SyncMetadata (records + reverse index)   *)
(*   youdaonote/upload.py         YoudaoNoteUpload                         *)
(*   youdaonote/download.py       YoudaoNoteDownload.download_file         *)
(*   youdaonote/dedup.py          auto_dedup                               *)
(***************************************************************************)
EXTENDS Integers, Sequences, FiniteSets, TLC

(***************************************************************************)
(* Bounds of the model.                                                    *)
(***************************************************************************)
\* the clock shows 1..MaxMtime; modification times are drawn from 0..MaxMtime
MaxMtime == 2
\* number of environment steps in a behaviour: external writes, clock ticks
\* and sync() calls
MaxSteps == 4
\* number of calls made on a SyncMetadata on its own, writes of its file by
\* others included
MaxCalls == 4

(***************************************************************************)
(* Python's Optional[int]: None is a value outside the integers used.      *)
(***************************************************************************)
None == -1

Mtimes == 0..MaxMtime
OptMtimes == Mtimes \cup {None}

\* Python truthiness of an Optional[int]: None and 0 are falsy.
Truthy(x) == x # None /\ x # 0


(***************************************************************************)
(* Python dicts keep insertion order, and the store's linear scans return  *)
(* the first match in that order: a dict is a key sequence plus a map.     *)
(***************************************************************************)
EmptyDict == [keys |-> <<>>, val |-> <<>>]
SeqToSet(s) == {s[i] : i \in 1..Len(s)}
DictKeys(d) == SeqToSet(d.keys)
DictHas(d, k) == k \in DictKeys(d)
DictGet(d, k) == d.val[CHOOSE i \in 1..Len(d.keys) : d.keys[i] = k]
DictSet(d, k, v) ==
    IF DictHas(d, k)
    THEN [d EXCEPT !.val[CHOOSE i \in 1..Len(d.keys) : d.keys[i] = k] = v]
    ELSE [keys |-> Append(d.keys, k), val |-> Append(d.val, v)]
DictDel(d, k) ==
    IF ~DictHas(d, k) THEN d
    ELSE LET i == CHOOSE j \in 1..Len(d.keys) : d.keys[j] = k
             keep == [j \in 1..(Len(d.keys) - 1) |-> IF j < i THEN j ELSE j + 1]
         IN [keys |-> [j \in 1..(Len(d.keys) - 1) |-> d.keys[keep[j]]],
             val  |-> [j \in 1..(Len(d.keys) - 1) |-> d.val[keep[j]]]]
Min(S) == CHOOSE x \in S : \A y \in S : x <= y

(***************************************************************************)
(* Relative paths.  A path is its parent directory's name ("" for the      *)
(* sync root), the stem of the file name, the conflict timestamps that     *)
(* backup_file has inserted before the extension, and the extension.       *)
(***************************************************************************)
File(d, s) == [dir |-> d, stem |-> s, conf |-> <<>>, ext |-> ".md"]
\* an attachment: a file _ASSET_EXTS lists
Asset(d, s) == [dir |-> d, stem |-> s, conf |-> <<>>, ext |-> ".png"]
Dir(s) == [dir |-> "", stem |-> s, conf |-> <<>>, ext |-> ""]
IsTopLevel(p) == p.dir = ""
\* os.path.dirname(rel_path) as a path of its own
Dirname(p) == Dir(p.dir)
\* f.endswith(".md")
EndsWithMd(p) == p.ext = ".md"
\* ".conflict." in f
ContainsConflict(p) == p.conf # <<>>
\* path.count("/")
Depth(p) == IF p.dir = "" THEN 0 ELSE 1
\* len(os.path.basename(path)): stem, ".conflict.<ts>" parts, extension
BasenameLen(p) ==
    Len(p.conf) * 25 + (IF p.ext = ".md" THEN 3 ELSE IF p.ext = ".png" THEN 4 ELSE 0)
    + (IF p.stem = "qq" THEN 2 ELSE 1)

(***************************************************************************)
(* File contents are byte strings over a small alphabet; the tokens CR, LF *)
(* and BOM stand for \r, \n and the UTF-8 byte order mark.                 *)
(***************************************************************************)
RECURSIVE CrLfToLf(_)
\* data.replace(b"\r\n", b"\n")
CrLfToLf(c) ==
    IF Len(c) = 0 THEN c
    ELSE IF Len(c) >= 2 /\ c[1] = "CR" /\ c[2] = "LF"
         THEN <<"LF">> \o CrLfToLf(SubSeq(c, 3, Len(c)))
         ELSE <<c[1]>> \o CrLfToLf(Tail(c))
\* .replace(b"\xef\xbb\xbf", b""): every BOM, not only a leading one
DropBom(c) == SelectSeq(c, LAMBDA t : t # "BOM")
Normalize(c) == DropBom(CrLfToLf(c))
\* hashlib.md5(...).hexdigest(): a digest stands for the bytes it digests
\* (MD5 is taken to be injective on the contents of the model).
NoHash == <<>>
Md5(bytes) == <<"md5", bytes>>
EMPTY_MD5 == Md5(<<>>)
\* SyncMetadata.compute_content_hash of a readable file
compute_content_hash(c) == Md5(Normalize(c))
\* os.path.getsize
Size(c) == Len(c)
RECURSIVE UniversalNewlines(_)
\* open(path, "r", encoding="utf-8").read(): \r\n and \r are read as \n
UniversalNewlines(c) ==
    IF Len(c) = 0 THEN c
    ELSE IF Len(c) >= 2 /\ c[1] = "CR" /\ c[2] = "LF"
         THEN <<"LF">> \o UniversalNewlines(SubSeq(c, 3, Len(c)))
         ELSE IF c[1] = "CR" THEN <<"LF">> \o UniversalNewlines(Tail(c))
         ELSE <<c[1]>> \o UniversalNewlines(Tail(c))

(***************************************************************************)
(* Cloud ids.  "" is the empty id; generate_file_id draws a fresh one.     *)
(***************************************************************************)
EmptyId == 0
RootId == 1


(***************************************************************************)
(* SyncMetadata (sync_metadata.py): _data["files"], _data["directories"]   *)
(* and the reverse index _hash_index.  A field that a Python record lacks  *)
(* holds its falsy stand-in: EmptyId, None, NoHash, or 0 for create_time.  *)
(***************************************************************************)
EmptyFn == [x \in {} |-> x]
FnSet(f, k, v) == [x \in (DOMAIN f) \cup {k} |-> IF x = k THEN v ELSE f[x]]
FnDel(f, k) == [x \in (DOMAIN f) \ {k} |-> f[x]]

EmptyMetadata == [files |-> EmptyDict, directories |-> EmptyDict, hash_index |-> EmptyFn]

\* SyncMetadata.get_file_info: the record, or NoInfo for Python's None
NoInfo == [file_id |-> EmptyId, cloud_mtime |-> None, local_mtime |-> None,
           parent_id |-> EmptyId, domain |-> None, content_hash |-> NoHash,
           create_time |-> 0, present |-> FALSE]
get_file_info(md, path) ==
    IF DictHas(md.files, path) THEN DictGet(md.files, path) ELSE NoInfo
\* SyncMetadata.get_dir_id
get_dir_id(md, path) ==
    IF DictHas(md.directories, path) THEN DictGet(md.directories, path).dir_id ELSE EmptyId

\* A variant of set_file_info that records the cloud's time as the local one.
set_file_info_cloud_time(md, path, file_id, cloud_mtime, local_mtime, parent_id, domain, content_hash, create_time, disk_mtime) ==
    LET rec == [file_id |-> file_id, cloud_mtime |-> cloud_mtime, local_mtime |-> cloud_mtime,
                parent_id |-> parent_id, domain |-> domain,
                content_hash |-> content_hash,
                create_time |-> IF create_time # None /\ create_time > 0
                                THEN create_time ELSE 0,
                present |-> TRUE]
    IN [md EXCEPT !.files = DictSet(md.files, path, rec),
                  !.hash_index = IF content_hash # NoHash /\ file_id # EmptyId
                                 THEN FnSet(md.hash_index, content_hash, path)
                                 ELSE md.hash_index]

\* SyncMetadata.set_file_info; disk_mtime is the file's mtime on disk (None
\* when it does not exist), read only when local_mtime is not supplied.
set_file_info(md, path, file_id, cloud_mtime, local_mtime, parent_id, domain, content_hash, create_time, disk_mtime) ==
    LET lm == IF local_mtime # None THEN local_mtime
              ELSE IF disk_mtime # None THEN disk_mtime ELSE cloud_mtime
        rec == [file_id |-> file_id, cloud_mtime |-> cloud_mtime, local_mtime |-> lm,
                parent_id |-> parent_id, domain |-> domain,
                content_hash |-> content_hash,
                create_time |-> IF create_time # None /\ create_time > 0
                                THEN create_time ELSE 0,
                present |-> TRUE]
    IN [md EXCEPT !.files = DictSet(md.files, path, rec),
                  !.hash_index = IF content_hash # NoHash /\ file_id # EmptyId
                                 THEN FnSet(md.hash_index, content_hash, path)
                                 ELSE md.hash_index]

\* SyncMetadata.set_dir_info
set_dir_info(md, path, dir_id, parent_id) ==
    [md EXCEPT !.directories =
        DictSet(md.directories, path, [dir_id |-> dir_id, parent_id |-> parent_id])]

\* the first path, in insertion order, other than `skip`, whose record holds
\* hash h and a non-empty file_id; NoPath when there is none
NoPath == [dir |-> "", stem |-> "", conf |-> <<>>, ext |-> ""]
FirstHolder(files, h, skip) ==
    LET hits == {i \in 1..Len(files.keys) :
                     /\ files.keys[i] # skip
                     /\ files.val[i].content_hash = h
                     /\ files.val[i].file_id # EmptyId}
    IN IF hits = {} THEN NoPath ELSE files.keys[Min(hits)]

\* SyncMetadata.update_content_hash
update_content_hash(md, path, content_hash) ==
    IF ~DictHas(md.files, path) THEN md
    ELSE LET old == DictGet(md.files, path)
             old_hash == old.content_hash
             files1 == DictSet(md.files, path, [old EXCEPT !.content_hash = content_hash])
             evict == old_hash # NoHash /\ old_hash # content_hash
                      /\ old_hash \in DOMAIN md.hash_index
                      /\ md.hash_index[old_hash] = path
             other == FirstHolder(files1, old_hash, path)
             idx1 == IF ~evict THEN md.hash_index
                     ELSE IF other = NoPath THEN FnDel(md.hash_index, old_hash)
                     ELSE FnSet(md.hash_index, old_hash, other)
             idx2 == IF old.file_id # EmptyId THEN FnSet(idx1, content_hash, path) ELSE idx1
         IN [md EXCEPT !.files = files1, !.hash_index = idx2]

\* SyncMetadata.remove_file
remove_file(md, path) ==
    IF ~DictHas(md.files, path) THEN md
    ELSE LET h == DictGet(md.files, path).content_hash
             files1 == DictDel(md.files, path)
             evict == h # NoHash /\ h \in DOMAIN md.hash_index /\ md.hash_index[h] = path
             other == FirstHolder(files1, h, NoPath)
         IN [md EXCEPT !.files = files1,
                       !.hash_index = IF ~evict THEN md.hash_index
                                      ELSE IF other = NoPath THEN FnDel(md.hash_index, h)
                                      ELSE FnSet(md.hash_index, h, other)]

\* A variant of the lookup that never finds a holder.
find_cloud_file_by_hash_never(md, content_hash, exclude_path) == [found |-> NoPath, md |-> md]

\* SyncMetadata.find_cloud_file_by_hash: the path found (NoPath for None) and
\* the store after the lookup, which repairs or evicts a stale index entry.
find_cloud_file_by_hash(md, content_hash, exclude_path) ==
    IF content_hash = NoHash \/ content_hash \notin DOMAIN md.hash_index
    THEN [found |-> NoPath, md |-> md]
    ELSE LET hit == md.hash_index[content_hash]
             info == get_file_info(md, hit)
         IN IF exclude_path # NoPath /\ hit = exclude_path
            THEN [found |-> FirstHolder(md.files, content_hash, exclude_path), md |-> md]
            ELSE IF info.present /\ info.content_hash = content_hash
                    /\ info.file_id # EmptyId
            THEN [found |-> hit, md |-> md]
            ELSE LET other == FirstHolder(md.files, content_hash, exclude_path)
                 IN IF other # NoPath
                    THEN [found |-> other,
                          md |-> [md EXCEPT !.hash_index = FnSet(@, content_hash, other)]]
                    ELSE [found |-> NoPath,
                          md |-> [md EXCEPT !.hash_index = FnDel(@, content_hash)]]

\* SyncMetadata.update_local_mtime
update_local_mtime(md, path, mtime) ==
    IF ~DictHas(md.files, path) THEN md
    ELSE [md EXCEPT !.files = DictSet(md.files, path,
                                      [DictGet(md.files, path) EXCEPT !.local_mtime = mtime])]

\* SyncMetadata.update_cloud_mtime
update_cloud_mtime(md, path, mtime) ==
    IF ~DictHas(md.files, path) THEN md
    ELSE [md EXCEPT !.files = DictSet(md.files, path,
                                      [DictGet(md.files, path) EXCEPT !.cloud_mtime = mtime])]

\* SyncMetadata.remove_dir
remove_dir(md, path) ==
    IF ~DictHas(md.directories, path) THEN md
    ELSE [md EXCEPT !.directories = DictDel(md.directories, path)]

\* SyncMetadata.get_file_id: EmptyId for Python's None
get_file_id(md, path) ==
    IF DictHas(md.files, path) THEN DictGet(md.files, path).file_id ELSE EmptyId

\* SyncMetadata.get_all_files, get_all_dirs: the mapping, whatever the order
\* of insertion (Python compares dicts without it)
AsMapping(d) == [k \in DictKeys(d) |-> DictGet(d, k)]
get_all_files(md) == AsMapping(md.files)
get_all_dirs(md) == AsMapping(md.directories)

(***************************************************************************)
(* Path strings as callers spell them: a sequence of names and separators, *)
(* "/" or "\\".  SyncMetadata._normalize_path is never given a base_dir  *)
(* by the store's methods, so all it does is replace the backslashes.      *)
(***************************************************************************)
Spelled(s) == [chars |-> s]
normalize_path(p) ==
    [chars |-> [i \in 1..Len(p.chars) |-> IF p.chars[i] = "\\" THEN "/" ELSE p.chars[i]]]


(***************************************************************************)
(* The world a pass acts on.  A handler maps a world to the set of worlds  *)
(* it can leave behind (cloud calls and copies may fail).                  *)
(*   local  : path -> [is_dir, mtime, content]   the local tree            *)
(*   cloud  : id -> node                          the cloud tree            *)
(*   metadata, next_id (the next fresh id), stats                          *)
(*   ops    : path -> sequence of the calls made for that path this pass   *)
(*   now    : the clock, in seconds; whatever the program or the cloud     *)
(*            stamps during a pass is stamped with it                      *)
(***************************************************************************)
\* _empty_stats
empty_stats == [downloaded |-> 0, uploaded |-> 0, skipped |-> 0, conflicts |-> 0,
                errors |-> 0, dedup_deleted |-> 0]


Exists(w, p) == p \in DOMAIN w.local
Bump(w, counter) == [w EXCEPT !.stats[counter] = @ + 1]
Note(w, p, what) ==
    [w EXCEPT !.ops = FnSet(@, p, (IF p \in DOMAIN @ THEN @[p] ELSE <<>>) \o <<what>>)]

\* os.makedirs(path, exist_ok=True): the directory and, when it is missing,
\* the directory above it
makedirs(w, d) ==
    IF d = Dir("") \/ Exists(w, d) THEN {w}
    ELSE LET made == [is_dir |-> TRUE, mtime |-> w.now, content |-> <<>>]
             up == IF IsTopLevel(d) \/ Exists(w, Dirname(d)) THEN w.local
                   ELSE FnSet(w.local, Dirname(d), made)
         IN {[w EXCEPT !.local = FnSet(up, d, made)]}

(***************************************************************************)
(* backup_file (sync.py): copy P to P.conflict.<ts><ext>.  shutil.copy2    *)
(* keeps the content and the mtime; the copy can fail.                     *)
(***************************************************************************)
backup_path(p, ts) == [p EXCEPT !.conf = Append(@, ts)]
backup_file(w, p, ts) ==
    IF ~Exists(w, p) THEN {Note(w, p, "backup_none")}
    ELSE {Note([w EXCEPT !.local = FnSet(@, backup_path(p, ts), w.local[p])], p, "backup_ok"),
          Note(w, p, "backup_failed")}

(***************************************************************************)
(* YoudaoNoteDownload.download_file (download.py).                         *)
(***************************************************************************)
\* the parameters download_file declares
DownloadFileParams ==
    {"file_id", "file_name", "local_dir", "modify_time", "create_time", "convert_to_md"}
\* the keyword arguments _do_download passes
DoDownloadKwargs ==
    {"file_id", "file_name", "local_dir", "modify_time", "skip_action_check"}

\* _get_file_action: ADD, SKIP or UPDATE
get_file_action(w, p, modify_time) ==
    IF ~Exists(w, p) THEN "ADD"
    ELSE IF modify_time # 0 /\ modify_time <= w.local[p].mtime THEN "SKIP"
    ELSE "UPDATE"

\* download_file's body: the worlds it can leave, each with its return value
download_file(w, p, file_id, modify_time) ==
    LET action == get_file_action(w, p, modify_time)
        removed == IF action = "UPDATE" THEN [w EXCEPT !.local = FnDel(@, p)] ELSE w
        fetched == {[ok |-> TRUE,
                     w |-> [removed EXCEPT !.local =
                               FnSet(@, p, [is_dir |-> FALSE,
                                            mtime |-> IF modify_time # 0 THEN modify_time
                                                      ELSE w.now,
                                            content |-> removed.cloud[file_id].content])]]}
    IN IF action = "SKIP" THEN {[ok |-> TRUE, w |-> w]}
       ELSE IF file_id \notin DOMAIN w.cloud THEN {[ok |-> FALSE, w |-> removed]}
       ELSE fetched \cup {[ok |-> FALSE, w |-> removed]}

\* A variant of _do_download whose call is accepted and whose download
\* replaces the local file whatever its mtime, as skip_action_check asks.
do_download_overwriting(w, item) ==
    LET p == item.relative_path IN
    IF item.cloud_id = EmptyId \/ item.cloud_id \notin DOMAIN w.cloud
    THEN {Bump(Note(w, p, "download_no_id"), "errors")}
    ELSE {LET got == [w1 EXCEPT !.local =
                        FnSet(@, p, [is_dir |-> FALSE,
                                     mtime |-> IF Truthy(item.cloud_mtime)
                                               THEN item.cloud_mtime ELSE w.now,
                                     content |-> w.cloud[item.cloud_id].content])]
              w2 == [got EXCEPT !.metadata =
                        set_file_info(@, p, item.cloud_id, item.cloud_mtime,
                                      got.local[p].mtime, item.cloud_parent_id, item.domain,
                                      compute_content_hash(got.local[p].content),
                                      item.cloud_ctime, None)]
          IN Bump(Note(Note(w2, p, "download_call"), p, "download_ok"), "downloaded")
          : w1 \in makedirs(w, Dirname(p))}

\* A variant of _do_download that logs a raised download without counting it.
do_download_uncounted(w, item) ==
    {Note(Note(w, item.relative_path, "download_call"), item.relative_path, "download_raised")}

(***************************************************************************)
(* SyncManager._do_download (sync.py).  Python binds the keyword arguments *)
(* before the body runs: a keyword the callee does not declare raises      *)
(* TypeError, which _do_download catches as a download exception.          *)
(***************************************************************************)
do_download(w, item) ==
    LET p == item.relative_path IN
    IF item.cloud_id = EmptyId THEN {Bump(Note(w, p, "download_no_id"), "errors")}
    ELSE UNION {
      IF ~(DoDownloadKwargs \subseteq DownloadFileParams)
      THEN {Bump(Note(Note(w1, p, "download_call"), p, "download_raised"), "errors")}
      ELSE {IF r.ok
            THEN LET lm == IF Exists(r.w, p) THEN r.w.local[p].mtime ELSE item.cloud_mtime
                     h == IF Exists(r.w, p) THEN compute_content_hash(r.w.local[p].content)
                          ELSE NoHash
                     w2 == [r.w EXCEPT !.metadata =
                              set_file_info(@, p, item.cloud_id, item.cloud_mtime, lm,
                                            item.cloud_parent_id, item.domain, h,
                                            item.cloud_ctime, None)]
                 IN Bump(Note(Note(w2, p, "download_call"), p, "download_ok"), "downloaded")
            ELSE Bump(Note(Note(r.w, p, "download_call"), p, "download_failed"), "errors")
            : r \in download_file(w1, p, item.cloud_id,
                                  IF Truthy(item.cloud_mtime) THEN item.cloud_mtime ELSE 0)}
      : w1 \in makedirs(w, Dirname(p))}


(***************************************************************************)
(* The cloud client's calls that change the cloud (api.py).  Every call    *)
(* can fail (HTTP error, error payload).                                   *)
(***************************************************************************)
\* the directory nodes named `name` under `parent_id`
CloudDirsNamed(w, parent_id, name) ==
    {i \in DOMAIN w.cloud : w.cloud[i].is_dir /\ w.cloud[i].parent_id = parent_id
                            /\ w.cloud[i].path.stem = name}
\* the relative path of a node called like `p` that is put under parent_id
PathUnder(w, parent_id, p) ==
    [p EXCEPT !.dir = IF parent_id = RootId \/ parent_id \notin DOMAIN w.cloud
                      THEN "" ELSE w.cloud[parent_id].path.stem]

\* YoudaoNoteApi.create_dir: a duplicate name answers with the existing id
create_dir(w, parent_id, name) ==
    {[id |-> EmptyId, w |-> w]} \cup
    (IF CloudDirsNamed(w, parent_id, name) # {}
     THEN {[id |-> i, w |-> w] : i \in CloudDirsNamed(w, parent_id, name)}
     ELSE {[id |-> w.next_id,
            w |-> [w EXCEPT !.next_id = @ + 1,
                            !.cloud = FnSet(@, w.next_id,
                                [path |-> Dir(name), is_dir |-> TRUE, mtime |-> w.now,
                                 ctime |-> w.now, content |-> <<>>,
                                 parent_id |-> parent_id])]]})

\* YoudaoNoteApi.push_file: create a node, or save the body of an existing one.
\* The cloud stamps the node with the current second; mtime is the
\* modifyTimeForSort of the answer's entry, None when the entry lacks it.
push_file(w, file_id, parent_id, p, body, is_create) ==
    {[ok |-> FALSE, mtime |-> None, w |-> w]} \cup
    (IF is_create
     THEN {[ok |-> TRUE, mtime |-> m,
            w |-> [w EXCEPT !.next_id = @ + 1,
                            !.cloud = FnSet(@, file_id,
                                [path |-> PathUnder(w, parent_id, p), is_dir |-> FALSE,
                                 mtime |-> w.now, ctime |-> w.now, content |-> body,
                                 parent_id |-> parent_id])]]
           : m \in {w.now, None}}
     ELSE IF file_id \notin DOMAIN w.cloud THEN {}
     ELSE {[ok |-> TRUE, mtime |-> m,
            w |-> [w EXCEPT !.cloud[file_id].content = body,
                            !.cloud[file_id].mtime = w.now]]
           : m \in {w.now, None}})

(***************************************************************************)
(* YoudaoNoteUpload (upload.py).                                           *)
(***************************************************************************)
\* ensure_cloud_dir: the id (EmptyId for None) and the world left
ensure_cloud_dir(w, dir_name, parent_id, rel) ==
    IF get_dir_id(w.metadata, rel) # EmptyId
    THEN {[id |-> get_dir_id(w.metadata, rel), w |-> w]}
    ELSE {IF r.id # EmptyId
          THEN [id |-> r.id,
                w |-> [r.w EXCEPT !.metadata = set_dir_info(@, rel, r.id, parent_id)]]
          ELSE r
          : r \in create_dir(w, parent_id, dir_name)}

\* ensure_parent_dir for the model's depth: the parent of a top-level path
\* is the cloud root, whose lookup can raise; a deeper path's directory is
\* taken from the directory records or created under the root.
ensure_parent_dir(w, rel) ==
    LET parent_rel == Dirname(rel)
        root == {[raised |-> FALSE, id |-> RootId, w |-> w],
                 [raised |-> TRUE, id |-> EmptyId, w |-> w]}
    IN IF IsTopLevel(rel) THEN root
       ELSE IF get_dir_id(w.metadata, parent_rel) # EmptyId
       THEN {[raised |-> FALSE, id |-> get_dir_id(w.metadata, parent_rel), w |-> w]}
       ELSE UNION {IF g.raised THEN {g}
                   ELSE {[raised |-> FALSE, id |-> r.id, w |-> r.w]
                         : r \in ensure_cloud_dir(w, parent_rel.stem, g.id, parent_rel)}
                   : g \in root}

\* A variant of _upload_markdown that writes the record before it pushes,
\* so that a failed push leaves the record advanced.
upload_markdown_record_first(w, p, parent_id, force) ==
    LET local_mtime == w.local[p].mtime
        file_info == get_file_info(w.metadata, p)
        is_create == ~(file_info.present /\ file_info.file_id # EmptyId)
        file_id == IF is_create THEN w.next_id ELSE file_info.file_id
        body == UniversalNewlines(w.local[p].content)
    IN {[ok |-> r.ok,
         w |-> Note([r.w EXCEPT !.metadata =
                       set_file_info(@, p, file_id,
                                     IF r.mtime # None THEN r.mtime ELSE local_mtime,
                                     local_mtime, parent_id, 1, NoHash, None, None)],
                    p, IF ~r.ok THEN "push_failed"
                       ELSE IF r.mtime = None THEN "push_unstamped"
                       ELSE IF is_create THEN "push_create" ELSE "push_save")]
        : r \in push_file(w, file_id, parent_id, p, body, is_create)}

\* _upload_markdown: ok and the world left
upload_markdown(w, p, parent_id, force) ==
    LET local_mtime == w.local[p].mtime
        file_info == get_file_info(w.metadata, p)
        is_create == ~(file_info.present /\ file_info.file_id # EmptyId)
        file_id == IF is_create THEN w.next_id ELSE file_info.file_id
        body == UniversalNewlines(w.local[p].content)
    IN IF file_info.present /\ ~force /\ local_mtime <= file_info.local_mtime
       THEN {[ok |-> TRUE, w |-> w]}
       ELSE {IF r.ok
             THEN [ok |-> TRUE,
                   w |-> Note([r.w EXCEPT !.metadata =
                                 set_file_info(@, p, file_id,
                                               IF r.mtime # None THEN r.mtime
                                               ELSE local_mtime,
                                               local_mtime,
                                               parent_id, 1, NoHash, None, None)],
                              p, IF r.mtime = None THEN "push_unstamped"
                                 ELSE IF is_create THEN "push_create" ELSE "push_save")]
             ELSE [ok |-> FALSE, w |-> Note(r.w, p, "push_failed")]
             : r \in push_file(w, file_id, parent_id, p, body, is_create)}

\* upload_file: a missing path or a directory is refused; .md goes to
\* _upload_markdown, and so does every suffix other than .note
upload_file(w, p, parent_id, force) ==
    IF ~Exists(w, p) \/ w.local[p].is_dir THEN {[ok |-> FALSE, w |-> w]}
    ELSE IF p.ext = ".note" THEN {[ok |-> TRUE, w |-> w]}
    ELSE upload_markdown(w, p, parent_id, force)

(***************************************************************************)
(* SyncManager._do_upload (sync.py).                                       *)
(***************************************************************************)
do_upload(w, item) ==
    LET p == item.relative_path IN
    IF ~Exists(w, p) THEN {Bump(Note(w, p, "upload_missing"), "errors")}
    ELSE
    LET content_hash == compute_content_hash(w.local[p].content)
        look == find_cloud_file_by_hash(w.metadata, content_hash, p)
        w0 == [w EXCEPT !.metadata = look.md]
    IN IF look.found # NoPath THEN {Bump(Note(w0, p, "upload_shortcut"), "skipped")}
       ELSE UNION {
         IF par.raised THEN {Bump(Note(par.w, p, "upload_raised"), "errors")}
         ELSE IF par.id = EmptyId THEN {Bump(Note(par.w, p, "upload_no_parent"), "errors")}
         ELSE {IF r.ok
               THEN Bump([r.w EXCEPT !.metadata = update_content_hash(@, p, content_hash)],
                         "uploaded")
               ELSE Bump(r.w, "errors")
               : r \in upload_file(par.w, p, par.id, TRUE)}
         : par \in (IF item.cloud_parent_id # EmptyId
                    THEN {[raised |-> FALSE, id |-> item.cloud_parent_id, w |-> w0]}
                    ELSE ensure_parent_dir(w0, p))}

(***************************************************************************)
(* SyncManager._do_conflict (sync.py): count, back up, then resolve by     *)
(* direction.  The backup's name is stamped with the current second.       *)
(***************************************************************************)
do_conflict(w, item, dir) ==
    LET p == item.relative_path
        ts == w.now
        w0 == Bump(w, "conflicts")
    IN IF dir = "pull"
       THEN UNION {do_download(b, item) : b \in backup_file(w0, p, ts)}
       ELSE IF dir = "push"
       THEN UNION {do_upload(b, item)
                   : b \in (IF item.cloud_id # EmptyId THEN backup_file(w0, p, ts) ELSE {w0})}
       ELSE IF Exists(w0, p)
       THEN UNION {do_download(b, item) : b \in backup_file(w0, p, ts)}
       ELSE do_download(w0, item)

(***************************************************************************)
(* SyncManager._execute_dir (sync.py).                                     *)
(***************************************************************************)
execute_dir(w, item) ==
    LET p == item.relative_path IN
    IF item.action = "download"
    THEN {Bump(w1, "downloaded") : w1 \in makedirs(w, p)}
    ELSE IF item.action = "upload" /\ item.cloud_parent_id # EmptyId
    THEN {Bump(r.w, "uploaded") : r \in ensure_cloud_dir(w, p.stem, item.cloud_parent_id, p)}
    ELSE {Bump(w, "skipped")}

(***************************************************************************)
(* dedup.py: auto_dedup, as SyncManager._run_dedup calls it after a pass.  *)
(***************************************************************************)
\* os.walk lists a directory's files before it descends
\* os.walk's order over the files of the model: the root's files, then a/'s
WalkOrder ==
    <<File("", "p"), File("", "q"), File("", "qq"), Asset("", "i"),
      File("a", "p"), Asset("a", "i"), File("a", "q")>>
WalkIndex(p) == CHOOSE i \in 1..Len(WalkOrder) : WalkOrder[i] = p

\* the files _build_indexes visits: no ".conflict." in the name
DedupFiles(w) ==
    SelectSeq(WalkOrder, LAMBDA p : Exists(w, p) /\ ~w.local[p].is_dir /\ ~ContainsConflict(p))

\* the hash _build_indexes files a path under: the recorded hash when the
\* recorded local_mtime is the file's mtime, else a fresh digest
IndexedHash(w, p) ==
    LET info == get_file_info(w.metadata, p)
    IN IF info.present /\ info.content_hash # NoHash /\ w.local[p].mtime = info.local_mtime
       THEN info.content_hash
       ELSE compute_content_hash(w.local[p].content)

RECURSIVE build_indexes_from(_, _, _)
\* _build_indexes' side effect on the store: a fresh digest is written into
\* the path's record, in walk order
build_indexes_from(w, md, i) ==
    IF i > Len(DedupFiles(w)) THEN md
    ELSE LET p == DedupFiles(w)[i]
             info == get_file_info(md, p)
             cached == info.present /\ info.content_hash # NoHash
                       /\ w.local[p].mtime = info.local_mtime
         IN build_indexes_from(w,
                IF ~cached /\ info.present
                THEN update_content_hash(md, p, compute_content_hash(w.local[p].content))
                ELSE md,
                i + 1)

\* _build_indexes' counter `updated`: the digests it wrote into the store
build_indexes_updated(w) ==
    Cardinality({p \in SeqToSet(DedupFiles(w)) :
                   LET info == get_file_info(w.metadata, p)
                   IN info.present
                      /\ ~(info.content_hash # NoHash /\ w.local[p].mtime = info.local_mtime)})

\* _MD_REF_RE on a Markdown body, resolved against the body's directory: the
\* links of the model, ![](i.png) and ![](a/i.png)
RefToken == "![](i.png)"
RefSubToken == "![](a/i.png)"
refs_of(p, c) ==
    IF ~EndsWithMd(p) THEN {}
    ELSE (IF \E i \in 1..Len(c) : c[i] = RefToken THEN {Asset(p.dir, "i")} ELSE {})
         \cup (IF IsTopLevel(p) /\ (\E i \in 1..Len(c) : c[i] = RefSubToken)
               THEN {Asset("a", "i")} ELSE {})
\* the referenced set of build_all_indexes
referenced(w) == UNION {refs_of(p, w.local[p].content) : p \in SeqToSet(DedupFiles(w))}

\* _is_asset
ASSET_EXTS == {".png"}
is_asset(p) == p.ext \in ASSET_EXTS

\* a score that is blind to the depth
cloud_score_flat(w, p) ==
    <<0, 0 - BasenameLen(p), 0 - get_file_info(w.metadata, p).create_time>>
\* _cloud_score: (depth, -len(basename), -ctime), compared as Python tuples
cloud_score(w, p) ==
    LET info == get_file_info(w.metadata, p)
        c0 == IF info.present THEN info.create_time ELSE 0
        c1 == IF c0 # 0 THEN c0
              ELSE IF ~info.present THEN 0
              ELSE IF Truthy(info.cloud_mtime) THEN info.cloud_mtime
              ELSE IF Truthy(info.local_mtime) THEN info.local_mtime ELSE 0
        c2 == IF c1 # 0 THEN c1 ELSE IF Exists(w, p) THEN w.local[p].mtime ELSE 0
    IN <<Depth(p), 0 - BasenameLen(p), 0 - c2>>
TupleLess(a, b) ==
    \/ a[1] < b[1]
    \/ a[1] = b[1] /\ a[2] < b[2]
    \/ a[1] = b[1] /\ a[2] = b[2] /\ a[3] < b[3]

\* sorted(cloud_paths, key=_cloud_score, reverse=True)[0]: the best score,
\* the earliest in the walk on a tie
best_scored(w, S) ==
    CHOOSE p \in S :
        \A q \in S \ {p} :
            \/ TupleLess(cloud_score(w, q), cloud_score(w, p))
            \/ cloud_score(w, q) = cloud_score(w, p) /\ WalkIndex(p) < WalkIndex(q)

\* info and info.get("file_id"): the path goes to cloud_paths
has_cloud_id_recorded(md, p) == get_file_info(md, p).present
has_cloud_id(md, p) == get_file_info(md, p).file_id # EmptyId
\* _is_asset(lp) and lp in referenced: reference protection
is_protected_never(p, refd) == FALSE
is_protected(p, refd) == is_asset(p) /\ p \in refd
\* the collision guard: two paths of one hash are of one group only if
\* os.path.getsize gives the same for both
same_size_always(w, p, q) == TRUE
same_size(w, p, q) == Size(w.local[p].content) = Size(w.local[q].content)

\* the step "decide" of auto_dedup for one duplicate group: the removals it
\* appends to the actions, as (path, cloud id), and what it adds to the stats
group_plan(w, G, refd) ==
    LET cloud_paths == {p \in G : has_cloud_id(w.metadata, p)}
        local_paths == G \ cloud_paths
        none == [removals |-> {}, kept |-> 0, deleted |-> 0, cloud_deleted |-> 0,
                 skipped |-> 0, protected_refs |-> 0]
        protected == {p \in local_paths : is_protected(p, refd)}
        to_remove == local_paths \ protected
        ref_paths == cloud_paths \cap refd
        unref_paths == cloud_paths \ refd
        keep_paths == IF (\E p \in cloud_paths : is_asset(p)) /\ ref_paths # {}
                      THEN ref_paths ELSE {best_scored(w, cloud_paths)}
        remove_paths == cloud_paths \ keep_paths
    IN IF \E p \in G : Size(w.local[p].content) = 0
       THEN [none EXCEPT !.skipped = 1]
       ELSE IF cloud_paths # {} /\ local_paths # {}
       THEN IF to_remove = {}
            THEN [none EXCEPT !.skipped = 1, !.protected_refs = Cardinality(protected)]
            ELSE [none EXCEPT !.removals = {[path |-> p, file_id |-> EmptyId] : p \in to_remove},
                              !.kept = Cardinality(cloud_paths),
                              !.deleted = Cardinality(to_remove),
                              !.protected_refs = Cardinality(protected)]
       ELSE IF Cardinality(cloud_paths) > 1 /\ local_paths = {}
       THEN IF (\E p \in cloud_paths : is_asset(p)) /\ unref_paths = {}
            THEN [none EXCEPT !.skipped = 1]
            ELSE [none EXCEPT !.removals = {[path |-> p,
                                             file_id |-> get_file_info(w.metadata, p).file_id]
                                            : p \in remove_paths},
                              !.kept = Cardinality(keep_paths),
                              !.deleted = Cardinality(remove_paths),
                              !.cloud_deleted = Cardinality(remove_paths)]
       ELSE [none EXCEPT !.skipped = 1]

\* the removals auto_dedup plans for one duplicate group
group_removals(w, G) == group_plan(w, G, referenced(w)).removals

\* _remove_empty_parents for the model's depth
remove_empty_parents(loc, p) ==
    IF ~IsTopLevel(p) /\ Dirname(p) \in DOMAIN loc /\ {q \in DOMAIN loc : q.dir = p.dir} = {}
    THEN FnDel(loc, Dirname(p)) ELSE loc

RECURSIVE run_removals(_, _, _, _)
\* the execution loop, in the order of the actions.  os.remove can raise;
\* os.rmdir in _remove_empty_parents can raise after the file and its record
\* are gone; either way deleted is decremented and the cloud copy is not
\* touched.  The cloud delete is made when there is an id and an api, and
\* its failure decrements cloud_deleted.
run_removals(w, rem, st, api) ==
    IF rem = {} THEN {[stats |-> st, w |-> w]}
    ELSE LET r == CHOOSE x \in rem : \A y \in rem : WalkIndex(x.path) <= WalkIndex(y.path)
             unlinked == FnDel(w.local, r.path)
             left == [w EXCEPT !.local = unlinked, !.metadata = remove_file(@, r.path)]
             gone == [left EXCEPT !.local = remove_empty_parents(@, r.path)]
             cloud_gone == [gone EXCEPT !.cloud = FnDel(@, r.file_id)]
             fewer == [st EXCEPT !.deleted = @ - 1]
             fewer_cloud == [st EXCEPT !.cloud_deleted = @ - 1]
         IN run_removals(w, rem \ {r}, fewer, api)
            \cup (IF gone.local # unlinked
                  THEN run_removals(left, rem \ {r}, fewer, api) ELSE {})
            \cup (IF r.file_id # EmptyId /\ api
                  THEN run_removals(gone, rem \ {r}, fewer_cloud, api)
                       \cup (IF r.file_id \in DOMAIN w.cloud
                             THEN run_removals(cloud_gone, rem \ {r}, st, api) ELSE {})
                  ELSE run_removals(gone, rem \ {r}, st, api))

\* auto_dedup(root, metadata, api, dry_run): the stats it returns, the world
\* it leaves, the actions it planned (the ones a dry run prints), the store
\* as _build_indexes left it, and which of its two metadata.save() calls it
\* made
auto_dedup(w, api, dry_run) ==
    LET w1 == [w EXCEPT !.metadata = build_indexes_from(w, w.metadata, 1)]
        files == SeqToSet(DedupFiles(w))
        refd == referenced(w)
        raw(p) == {q \in files : IndexedHash(w, q) = IndexedHash(w, p)}
        sized(p) == {q \in raw(p) : same_size(w, p, q)}
        \* a path alone in its size class of a hash group of several sizes
        collisions == {p \in files : Cardinality(raw(p)) > 1 /\ sized(p) = {p}}
        \* a group's key is the hash joined with the size, which no bare
        \* digest equals: only the size test skips a group
        key(p) == <<IndexedHash(w, p), "_", Size(w.local[p].content)>>
        groups == {G \in {sized(p) : p \in files} : Cardinality(G) > 1}
        plan(G) == IF \E p \in G : key(p) = EMPTY_MD5
                   THEN [removals |-> {}, kept |-> 0, deleted |-> 0, cloud_deleted |-> 0,
                         skipped |-> 1, protected_refs |-> 0]
                   ELSE group_plan(w1, G, refd)
        Sum(f) == LET RECURSIVE S(_)
                      S(Gs) == IF Gs = {} THEN 0
                               ELSE LET G == CHOOSE x \in Gs : TRUE
                                    IN f[G] + S(Gs \ {G})
                  IN S(groups)
        actions == UNION {plan(G).removals : G \in groups}
        planned == [deleted |-> Sum([G \in groups |-> plan(G).deleted]),
                    cloud_deleted |-> Sum([G \in groups |-> plan(G).cloud_deleted]),
                    kept |-> Sum([G \in groups |-> plan(G).kept]),
                    skipped |-> Cardinality(collisions)
                                + Sum([G \in groups |-> plan(G).skipped]),
                    groups |-> Cardinality(groups),
                    protected_refs |-> Sum([G \in groups |-> plan(G).protected_refs])]
        indexed == w1.metadata
        saved_index == build_indexes_updated(w) > 0
    IN IF dry_run \/ actions = {}
       THEN {[stats |-> planned, w |-> w1, actions |-> actions, indexed |-> indexed,
              saved_index |-> saved_index, saved_end |-> FALSE]}
       ELSE {[stats |-> r.stats, w |-> r.w, actions |-> actions, indexed |-> indexed,
              saved_index |-> saved_index, saved_end |-> TRUE]
             : r \in run_removals(w1, actions, planned, api)}

(***************************************************************************)
(* SyncAction and SyncDirection (sync.py).                                 *)
(***************************************************************************)
SyncAction == {"download", "upload", "skip", "conflict"}
SyncDirection == {"pull", "push", "both"}

(***************************************************************************)
(* decide_action (sync.py): the three-way decision.                        *)
(***************************************************************************)
decide_action(local_exists, cloud_exists, local_mtime, cloud_mtime, meta_local_mtime, meta_cloud_mtime) ==
    IF ~local_exists /\ ~cloud_exists THEN "skip"
    ELSE IF local_exists /\ ~cloud_exists THEN "upload"
    ELSE IF ~local_exists /\ cloud_exists THEN "download"
    ELSE LET local_changed == meta_local_mtime = None
                              \/ (Truthy(local_mtime) /\ local_mtime > meta_local_mtime)
             cloud_changed == meta_cloud_mtime = None
                              \/ (Truthy(cloud_mtime) /\ cloud_mtime > meta_cloud_mtime)
         IN IF local_changed /\ cloud_changed
            THEN IF Truthy(local_mtime) /\ Truthy(cloud_mtime) /\ local_mtime > cloud_mtime
                 THEN "upload"
                 ELSE IF Truthy(local_mtime) /\ Truthy(cloud_mtime) /\ cloud_mtime > local_mtime
                 THEN "download"
                 ELSE "conflict"
            ELSE IF local_changed THEN "upload"
            ELSE IF cloud_changed THEN "download"
            ELSE "skip"

(***************************************************************************)
(* _filter_by_direction (sync.py).                                         *)
(***************************************************************************)
\* A variant of the filter that retains every item in every direction.
filter_by_direction_all(its, dir) == its

filter_by_direction(its, dir) ==
    IF dir = "pull" THEN {i \in its : i.action \in {"download", "skip"}}
    ELSE IF dir = "push" THEN {i \in its : i.action \in {"upload", "skip"}}
    ELSE its

(***************************************************************************)
(* The state.                                                              *)
(***************************************************************************)
VARIABLES
    local,       \* the local tree: path -> [is_dir, mtime, content]
    cloud,       \* the cloud tree: id -> node
    metadata,    \* SyncManager.metadata
    next_id,     \* the next id generate_file_id or the cloud hands out
    stats,       \* SyncManager.stats
    ops,         \* the calls made per path in the current pass
    pc,          \* "idle", "dirs" (serial directory phase), "files" (worker pool)
    direction,   \* the direction of the current (or last) pass
    items,       \* the filtered sync items of the current (or last) pass
    labelled,    \* path -> action, as labelled by the scan, before filtering
    todo,        \* the paths whose item has not been executed yet
    now,         \* the clock, in seconds
    passes,      \* passes started
    ext,         \* external mutations made
    settled,     \* a BOTH pass that listed the cloud has ended without errors and
                 \* nothing has changed since
    second,      \* the current (or last) pass is a BOTH pass that listed the cloud
                 \* and was started when settled
    retry,       \* for the paths whose execution failed in the pass before the
                 \* current (or last) one, nothing having changed in between: the
                 \* action they were labelled with, whether dedup removed them,
                 \* and whether that pass had listed the cloud
    d_in, d_out, \* decide_action's arguments and its result ("none" before the call)
    scan,        \* how the cloud scan of the current (or last) sync() call went
    renamed,     \* the rename of a synced file that was the last external change,
                 \* and the passes run since
    disk,        \* the metadata file on disk
    thrown,      \* the last construction of a SyncMetadata raised
    call,        \* the last call made on the store: its name, its normalized path and
                 \* its hash (for remove_file, the hash the record held)
    calls,       \* the number of calls made on the store and writes of its file
    sv,          \* SyncMetadata.save in progress: its position, its temporary file,
                 \* the metadata file as it was when it began, and how it ended
    dd,          \* the last auto_dedup call: its arguments, the actions it planned,
                 \* the stats it returned, and the state it was called in
    wt,          \* the SyncWatcher: _running, _syncing, _pending_local_changes, the
                 \* locals now and last_poll and the position of its main thread,
                 \* the clock, the passes in progress and the events delivered
    pool,        \* the worker pool of _execute_all: SyncManager._lock and
                 \* _meta_dirty, the items not yet taken, and each worker's
                 \* position and locals
    pg           \* a get_dir_info_by_id call: the directory's entries, the
                 \* locals offset and all_entries, and the requests made

vars == <<local, cloud, metadata, next_id, stats, ops, pc, direction, items, labelled,
          todo, now, passes, ext, settled, second, retry, d_in, d_out, scan, renamed,
          disk, thrown, call, calls, sv, dd, wt, pool, pg>>
sync_vars == <<local, cloud, metadata, next_id, stats, ops, pc, direction, items,
               labelled, todo, now, passes, ext, settled, second, retry, scan, renamed>>
decide_vars == <<d_in, d_out>>
store_vars == <<disk, thrown, call, calls>>
tool_vars == <<sv, dd, wt, pool, pg>>
\* what a SyncManager holds besides its store
pass_vars == <<local, cloud, next_id, stats, ops, pc, direction, items, labelled, todo, now,
               passes, ext, settled, second, retry, scan, renamed>>

\* the log entries that end a failed execution of an item
FailureTags == {"download_no_id", "download_raised", "download_failed", "push_failed",
                "upload_missing", "upload_raised", "upload_no_parent"}
\* the execution of p's item has failed in the pass logged in o
Failed(o, p) == p \in DOMAIN o /\ \E i \in 1..Len(o[p]) : o[p][i] \in FailureTags
\* the last entry logged for p
LastOp(o, p) == IF p \in DOMAIN o /\ Len(o[p]) > 0 THEN o[p][Len(o[p])] ELSE "none"

\* the environment steps taken so far
Steps == ext + passes + (now - 1)

World == [local |-> local, cloud |-> cloud, metadata |-> metadata, next_id |-> next_id,
          stats |-> stats, ops |-> ops, now |-> now]
Becomes(w) ==
    /\ local' = w.local
    /\ cloud' = w.cloud
    /\ metadata' = w.metadata
    /\ next_id' = w.next_id
    /\ stats' = w.stats
    /\ ops' = w.ops

(***************************************************************************)
(* The files and directories users and the cloud side create and edit.     *)
(***************************************************************************)
UserDirs == {Dir("a")}
UserFiles == {File("", "p"), File("a", "p")}
ContentPool == {<<"x">>, <<"y">>}

\* no rename is being followed
NoRename == [old |-> NoPath, new |-> NoPath, at |-> 0, clean |-> FALSE]

\* the metadata file: not there, text json.load rejects, or a JSON value
NoFile == [kind |-> "absent"]
Garbage == [kind |-> "text"]
JsonFile(v) == [kind |-> "json", value |-> v]

\* the store as its constructor leaves it when there is no metadata file
NoCall == [op |-> "none", path |-> NoPath, hash |-> NoHash]
\* No save has begun, auto_dedup has not been called, the watcher is not started.
\* a document cut short: an empty or partly written file
Truncated == [kind |-> "partial"]
NoSave == [pc |-> "idle", tmp |-> NoFile, before |-> NoFile, doc |-> NoFile, result |-> "none"]
NoDedup == [done |-> FALSE]
NoWatch ==
    [running |-> FALSE, pc |-> "stopped", reason |-> "none", syncing |-> FALSE, clock |-> 0,
     now |-> 0, last_poll |-> 0, pending |-> EmptyFn, in_progress |-> 0, events |-> 0,
     ready |-> {}, hist |-> EmptyFn, observer |-> FALSE, late |-> FALSE, aborted |-> FALSE]
\* the pool's threads: UPLOAD_WORKERS is 5 in the source
MaxWorkers == 2
Workers == 1..MaxWorkers
\* passes a SyncManager runs with its pool followed step by step
MaxPoolPasses == 1
\* SyncManager.METADATA_SAVE_BATCH: 50 in the source
METADATA_SAVE_BATCH == 2
\* a worker: its position in _execute, its item's path, the parent id it has
\* found, and for a save() in progress the store as it was when json.dump
\* began and where save() was called from
IdleWorker ==
    [pc |-> "idle", path |-> NoPath, parent_id |-> EmptyId, began |-> EmptyMetadata,
     after |-> "none"]
\* no pool yet.  Beside _lock (its holder, 0 when free), _meta_dirty, the
\* queue and the workers: the create_dir calls made per directory, the
\* parent id each path was pushed with, whether the store was written by a
\* thread that did not hold _lock, and every document the store has been
NoPool ==
    [lock |-> 0, meta_dirty |-> 0, queue |-> {}, th |-> [t \in Workers |-> IdleWorker],
     creates |-> EmptyFn, parents |-> EmptyFn, bare |-> FALSE, docs |-> {}]
\* YoudaoNoteApi.DIR_PAGE_SIZE: 200 in the source
DIR_PAGE_SIZE == 2
\* the most entries a listed directory holds
MaxEntries == 9
\* no listing yet.  A call of get_dir_info_by_id: the entries the directory
\* holds (1..n, in the server's order), offset and all_entries, the page
\* and the count of the last answer (None when the answer has no count),
\* and whether an answer of this call had no count
NoPage ==
    [pc |-> "idle", n |-> 0, offset |-> 0, all_entries |-> <<>>, entries |-> <<>>,
     count |-> None, omitted |-> FALSE]
ToolInit == sv = NoSave /\ dd = NoDedup /\ wt = NoWatch /\ pool = NoPool /\ pg = NoPage

StoreInit ==
    /\ disk = NoFile
    /\ thrown = FALSE
    /\ call = NoCall
    /\ calls = 0
    /\ ToolInit

NoDecision == [local_exists |-> FALSE, cloud_exists |-> FALSE, local_mtime |-> None,
               cloud_mtime |-> None, meta_local_mtime |-> None, meta_cloud_mtime |-> None]

\* a SyncManager that has not run yet
PassInit ==
    /\ stats = empty_stats
    /\ ops = EmptyFn
    /\ pc = "idle"
    /\ direction = "both"
    /\ items = {}
    /\ labelled = EmptyFn
    /\ todo = {}
    /\ now = 1
    /\ passes = 0
    /\ ext = 0
    /\ second = FALSE
    /\ retry = EmptyFn
    /\ scan = "none"
    /\ renamed = NoRename

\* nothing on either side, no metadata file
SyncInit ==
    /\ local = EmptyFn
    /\ cloud = EmptyFn
    /\ metadata = EmptyMetadata
    /\ next_id = RootId + 1
    /\ settled = FALSE
    /\ PassInit

Init == SyncInit /\ d_in = NoDecision /\ d_out = "none" /\ StoreInit

(***************************************************************************)
(* External mutations, between passes.                                     *)
(***************************************************************************)
External ==
    /\ pc = "idle"
    /\ Steps < MaxSteps
    /\ ext' = ext + 1
    /\ settled' = FALSE
    /\ ops' = EmptyFn
    /\ items' = {}
    /\ labelled' = EmptyFn
    /\ retry' = EmptyFn
    /\ scan' = "none"
    /\ UNCHANGED <<metadata, stats, pc, direction, todo, now, passes, second, d_in, d_out,
                   store_vars, tool_vars>>

\* the user writes a file (creates it or edits it), creating its directory
\* when it is missing
LocalWrite(f, c, m) ==
    /\ External
    /\ LET made == IF IsTopLevel(f) \/ Dirname(f) \in DOMAIN local THEN local
                   ELSE FnSet(local, Dirname(f),
                              [is_dir |-> TRUE, mtime |-> m, content |-> <<>>])
       IN local' = FnSet(made, f, [is_dir |-> FALSE, mtime |-> m, content |-> c])
    /\ renamed' = NoRename
    /\ UNCHANGED <<cloud, next_id>>

\* the user moves a file to a path that is free (os.rename keeps the mtime),
\* creating the target's directory when it is missing.  The move is followed
\* as a rename when the file was in sync: the last BOTH pass ended without
\* errors, nothing has changed since, and the file's record holds the id of
\* its cloud node and the file's mtime.
LocalMove(f, g) ==
    /\ External
    /\ f \in DOMAIN local /\ ~local[f].is_dir
    /\ g \notin DOMAIN local
    /\ LET made == IF IsTopLevel(g) \/ Dirname(g) \in DOMAIN local THEN local
                   ELSE FnSet(local, Dirname(g),
                              [is_dir |-> TRUE, mtime |-> now, content |-> <<>>])
           r == get_file_info(metadata, f)
           synced == /\ settled
                     /\ r.present /\ r.file_id \in DOMAIN cloud
                     /\ r.local_mtime = local[f].mtime
       IN /\ local' = FnSet(FnDel(made, f), g, local[f])
          /\ renamed' = IF synced
                        THEN [old |-> f, new |-> g, at |-> passes, clean |-> TRUE]
                        ELSE NoRename
    /\ UNCHANGED <<cloud, next_id>>

\* another client writes a note in the cloud (creates it or edits it),
\* creating its directory when it is missing
CloudWrite(f, c, m) ==
    /\ External
    /\ LET at == {i \in DOMAIN cloud : cloud[i].path = f}
           dirs == CloudDirsNamed(World, RootId, f.dir)
           need_dir == ~IsTopLevel(f) /\ dirs = {}
           made == IF need_dir
                   THEN FnSet(cloud, next_id,
                              [path |-> Dirname(f), is_dir |-> TRUE, mtime |-> m, ctime |-> m,
                               content |-> <<>>, parent_id |-> RootId])
                   ELSE cloud
           id == IF need_dir THEN next_id + 1 ELSE next_id
           parents == IF IsTopLevel(f) THEN {RootId}
                      ELSE IF need_dir THEN {next_id} ELSE dirs
       IN IF at # {}
          THEN /\ \E i \in at : cloud' = [cloud EXCEPT ![i].content = c, ![i].mtime = m]
               /\ UNCHANGED next_id
          ELSE /\ \E par \in parents :
                    cloud' = FnSet(made, id,
                                   [path |-> f, is_dir |-> FALSE, mtime |-> m, ctime |-> m,
                                    content |-> c, parent_id |-> par])
               /\ next_id' = id + 1
    /\ renamed' = NoRename
    /\ UNCHANGED local

\* a second passes
Tick ==
    /\ pc = "idle"
    /\ now < MaxMtime
    /\ Steps < MaxSteps
    /\ now' = now + 1
    /\ UNCHANGED <<local, cloud, metadata, next_id, stats, ops, pc, direction, items,
                   labelled, todo, passes, ext, settled, second, retry, d_in, d_out,
                   scan, renamed, store_vars, tool_vars>>

(***************************************************************************)
(* SyncManager._scan_local, _scan_cloud, _build_item, _collect_items.      *)
(***************************************************************************)
\* _scan_local keeps directories and the files whose name ends in .md
scan_local(w) == {p \in DOMAIN w.local : w.local[p].is_dir \/ EndsWithMd(p)}

\* _scan_cloud: path -> the id of the node listed for it; when two nodes
\* map to one path the one listed last wins, and the listing order is the
\* cloud's.
\* a note called X.note is kept locally as X.md
local_rel(p) == IF p.ext = ".note" THEN [p EXCEPT !.ext = ".md"] ELSE p
CloudPaths(w) == {local_rel(w.cloud[i].path) : i \in DOMAIN w.cloud}
scan_cloud(w) ==
    {f \in [CloudPaths(w) -> DOMAIN w.cloud] :
        \A p \in CloudPaths(w) : local_rel(w.cloud[f[p]].path) = p}

build_item(w, rel, cloud_files, local_files) ==
    LET has_cloud == rel \in DOMAIN cloud_files
        has_local == rel \in local_files
        c == w.cloud[cloud_files[rel]]
        l == w.local[rel]
        meta == get_file_info(w.metadata, rel)
    IN [relative_path |-> rel,
        cloud_id |-> IF has_cloud THEN cloud_files[rel]
                     ELSE IF meta.present THEN meta.file_id ELSE EmptyId,
        cloud_parent_id |-> IF has_cloud THEN c.parent_id
                            ELSE IF meta.present THEN meta.parent_id ELSE EmptyId,
        local_mtime |-> IF has_local THEN l.mtime ELSE None,
        cloud_mtime |-> IF has_cloud THEN c.mtime
                        ELSE IF meta.present THEN meta.cloud_mtime ELSE None,
        is_dir |-> (has_cloud /\ c.is_dir) \/ (has_local /\ l.is_dir),
        action |-> decide_action(has_local, has_cloud,
                                 IF has_local THEN l.mtime ELSE None,
                                 IF has_cloud THEN c.mtime ELSE None,
                                 IF meta.present THEN meta.local_mtime ELSE None,
                                 IF meta.present THEN meta.cloud_mtime ELSE None),
        domain |-> 1,
        cloud_ctime |-> IF has_cloud THEN c.ctime
                        ELSE IF meta.present THEN meta.create_time ELSE None]

\* A variant of _collect_items that builds an item for every cloud entry,
\* not for every key of the dict the scan has filled.
collect_items_per_entry(w, cloud_files) ==
    {build_item(w, p, cloud_files, scan_local(w)) : p \in scan_local(w) \ DOMAIN cloud_files}
    \cup {build_item(w, local_rel(w.cloud[i].path),
                     [cloud_files EXCEPT ![local_rel(w.cloud[i].path)] = i], scan_local(w))
          : i \in {j \in DOMAIN w.cloud : local_rel(w.cloud[j].path) \in DOMAIN cloud_files}}

collect_items(w, cloud_files) ==
    {build_item(w, p, cloud_files, scan_local(w))
     : p \in (DOMAIN cloud_files) \cup scan_local(w)}

ItemOf(p) == CHOOSE i \in items : i.relative_path = p

(***************************************************************************)
(* SyncManager.sync and _execute_all, step by step.                        *)
(***************************************************************************)
\* sync() without a session: get_root_dir_info_id raises (_require_auth)
\* before the counters are reset, and the caller gets the exception
SyncUnauthenticated ==
    /\ pc = "idle"
    /\ Steps < MaxSteps
    /\ passes' = passes + 1
    /\ scan' = "unauthenticated"
    /\ ops' = EmptyFn
    /\ items' = {}
    /\ labelled' = EmptyFn
    /\ retry' = EmptyFn
    /\ renamed' = IF renamed = NoRename THEN NoRename ELSE [renamed EXCEPT !.clean = FALSE]
    /\ UNCHANGED <<local, cloud, metadata, next_id, stats, pc, direction, todo, now, ext,
                   settled, second, d_in, d_out, store_vars, tool_vars>>

\* _scan_cloud when the listing of the root directory succeeds (listed) or
\* raises: _fetch_dir logs the exception and returns no entries
fetch_root(w, listed) == IF listed THEN scan_cloud(w) ELSE {EmptyFn}

\* sync(): reset the counters, scan, label, filter
StartPass(dir, listed) ==
    /\ pc = "idle"
    /\ Steps < MaxSteps
    /\ \E cloud_files \in fetch_root(World, listed) :
         LET all == collect_items(World, cloud_files)
             kept == filter_by_direction(all, dir)
         IN /\ items' = kept
            /\ labelled' = [p \in {i.relative_path : i \in all} |->
                              (CHOOSE i \in all : i.relative_path = p).action]
            /\ todo' = {i.relative_path : i \in kept}
    /\ stats' = empty_stats
    /\ ops' = EmptyFn
    /\ direction' = dir
    /\ passes' = passes + 1
    /\ second' = (settled /\ dir = "both" /\ listed)
    /\ retry' = [p \in {q \in DOMAIN ops : Failed(ops, q)} |->
                    [action |-> labelled[p],
                     removed |-> LastOp(ops, p) = "dedup_removed",
                     listed |-> scan = "ok"]]
    /\ pc' = "dirs"
    /\ scan' = IF listed THEN "ok" ELSE "root_failed"
    /\ renamed' = IF renamed = NoRename THEN NoRename
                  ELSE [renamed EXCEPT !.clean = @ /\ dir = "both" /\ listed]
    /\ UNCHANGED <<local, cloud, metadata, next_id, now, ext, settled, d_in, d_out,
                   store_vars, tool_vars>>

\* the serial directory phase: one directory item
ExecDir(p) ==
    /\ pc = "dirs"
    /\ p \in todo
    /\ ItemOf(p).is_dir
    /\ \E w \in execute_dir(World, ItemOf(p)) : Becomes(w)
    /\ todo' = todo \ {p}
    /\ UNCHANGED <<pc, direction, items, labelled, now, passes, ext, settled, second, retry,
                   d_in, d_out, scan, renamed, store_vars, tool_vars>>

\* the directories are done: count the SKIP files, dispatch the others
DispatchFiles ==
    /\ pc = "dirs"
    /\ \A p \in todo : ~ItemOf(p).is_dir
    /\ LET skips == {p \in todo : ItemOf(p).action = "skip"}
       IN /\ stats' = [stats EXCEPT !.skipped = @ + Cardinality(skips)]
          /\ todo' = todo \ skips
    /\ pc' = "files"
    /\ UNCHANGED <<local, cloud, metadata, next_id, ops, direction, items, labelled, now,
                   passes, ext, settled, second, retry, d_in, d_out, scan, renamed,
                   store_vars, tool_vars>>

FileStep(p, act) ==
    /\ pc = "files"
    /\ p \in todo
    /\ ItemOf(p).action = act
    /\ todo' = todo \ {p}
    /\ UNCHANGED <<pc, direction, items, labelled, now, passes, ext, settled, second, retry,
                   d_in, d_out, scan, renamed, store_vars, tool_vars>>

\* a worker runs _execute on one file item
DoDownload(p) ==
    /\ FileStep(p, "download")
    /\ \E w \in do_download(World, ItemOf(p)) : Becomes(w)

DoUpload(p) ==
    /\ FileStep(p, "upload")
    /\ \E w \in do_upload(World, ItemOf(p)) : Becomes(w)

DoConflict(p) ==
    /\ FileStep(p, "conflict")
    /\ \E w \in do_conflict(World, ItemOf(p), direction) : Becomes(w)

\* the log with "dedup_removed" added for the paths auto_dedup has removed
NoteRemoved(o, gone) ==
    [p \in (DOMAIN o) \cup gone |->
        (IF p \in DOMAIN o THEN o[p] ELSE <<>>)
        \o (IF p \in gone THEN <<"dedup_removed">> ELSE <<>>)]

\* sync() after _execute_all: dedup when anything was downloaded or uploaded
FinishPass ==
    /\ pc = "files"
    /\ todo = {}
    /\ IF stats.downloaded > 0 \/ stats.uploaded > 0
       THEN \E r \in auto_dedup(World, TRUE, FALSE) :
               Becomes([r.w EXCEPT !.stats.dedup_deleted = r.stats.deleted,
                                   !.ops = NoteRemoved(@, DOMAIN local \ DOMAIN r.w.local)])
       ELSE UNCHANGED <<local, cloud, metadata, next_id, stats, ops>>
    /\ pc' = "idle"
    /\ settled' = (direction = "both" /\ stats.errors = 0 /\ scan = "ok")
    /\ UNCHANGED <<direction, items, labelled, todo, now, passes, ext, second, retry,
                   d_in, d_out, scan, renamed, store_vars, tool_vars>>

AllPaths == UserDirs \cup UserFiles \cup {backup_path(f, t) : f \in UserFiles, t \in 1..MaxMtime}

Next ==
    \/ \E f \in UserFiles, c \in ContentPool, m \in 1..now : LocalWrite(f, c, m)
    \/ \E f \in UserFiles, c \in ContentPool, m \in 1..now : CloudWrite(f, c, m)
    \/ \E f, g \in UserFiles : LocalMove(f, g)
    \/ Tick
    \/ SyncUnauthenticated
    \/ \E dir \in SyncDirection, listed \in BOOLEAN : StartPass(dir, listed)
    \/ \E p \in AllPaths : ExecDir(p)
    \/ DispatchFiles
    \/ \E p \in AllPaths : DoDownload(p)
    \/ \E p \in AllPaths : DoUpload(p)
    \/ \E p \in AllPaths : DoConflict(p)
    \/ FinishPass

Spec == Init /\ [][Next]_vars

\* the steps sync() takes by itself once it has been called: the serial
\* directory loop, the dispatch, the pool's workers, the end of the call
PassStep ==
    \/ \E p \in AllPaths : ExecDir(p)
    \/ DispatchFiles
    \/ \E p \in AllPaths : DoDownload(p)
    \/ \E p \in AllPaths : DoUpload(p)
    \/ \E p \in AllPaths : DoConflict(p)
    \/ FinishPass

(***************************************************************************)
(* The state Spec is in after the user has written one note locally and a  *)
(* different note of the same name in the cloud (two external steps): the  *)
(* first pass over it finds a conflict.  From here sync() is taken to run  *)
(* to its end: the directory loop, the pool and the end of the call keep   *)
(* taking their steps.                                                     *)
(***************************************************************************)
TwiceWrittenLocal ==
    FnSet(EmptyFn, File("", "p"), [is_dir |-> FALSE, mtime |-> 1, content |-> <<"x">>])
TwiceWrittenCloud ==
    FnSet(EmptyFn, RootId + 1,
          [path |-> File("", "p"), is_dir |-> FALSE, mtime |-> 1, ctime |-> 1,
           content |-> <<"y">>, parent_id |-> RootId])
InitLive ==
    /\ local = TwiceWrittenLocal
    /\ cloud = TwiceWrittenCloud
    /\ metadata = EmptyMetadata
    /\ next_id = RootId + 2
    /\ settled = FALSE
    /\ stats = empty_stats /\ ops = EmptyFn /\ pc = "idle" /\ direction = "both"
    /\ items = {} /\ labelled = EmptyFn /\ todo = {}
    /\ now = 1 /\ passes = 0 /\ ext = 2
    /\ second = FALSE /\ retry = EmptyFn /\ scan = "none" /\ renamed = NoRename
    /\ d_in = NoDecision /\ d_out = "none"
    /\ StoreInit

SpecLive == InitLive /\ [][Next]_vars /\ WF_vars(PassStep)

(***************************************************************************)
(* A SyncManager constructed over a tree that is in sync: one note, on     *)
(* both sides, with the record an upload of it leaves (the state Spec is   *)
(* in after the note is written and a BOTH pass has pushed it).            *)
(***************************************************************************)
SyncedFile == File("", "p")
SyncedContent == <<"x">>
SyncedId == RootId + 1
SyncedLocal ==
    FnSet(EmptyFn, SyncedFile, [is_dir |-> FALSE, mtime |-> 1, content |-> SyncedContent])
SyncedCloud ==
    FnSet(EmptyFn, SyncedId,
          [path |-> SyncedFile, is_dir |-> FALSE, mtime |-> 1, ctime |-> 1,
           content |-> SyncedContent, parent_id |-> RootId])
SyncedMetadata ==
    update_content_hash(
        set_file_info(EmptyMetadata, SyncedFile, SyncedId, 1, 1, RootId, 1, NoHash, None, None),
        SyncedFile, compute_content_hash(SyncedContent))
\* the trees and the store are the synced ones
InSync ==
    /\ local = SyncedLocal
    /\ cloud = SyncedCloud
    /\ metadata = SyncedMetadata
    /\ next_id = SyncedId + 1
    /\ settled = TRUE

InitRename == InSync /\ PassInit /\ d_in = NoDecision /\ d_out = "none" /\ StoreInit

SpecRename == InitRename /\ [][Next]_vars

(***************************************************************************)
(* A SyncMetadata on its own: its methods called in any order, by any      *)
(* caller.  A record is set with the times 1, 1 and without parent_id,     *)
(* domain and create_time; the file the path names does not exist.         *)
(***************************************************************************)
StoreHashes == {compute_content_hash(<<"x">>), compute_content_hash(<<"y">>)}
StoreIds == {EmptyId, SyncedId}
IndexPaths == {Spelled(<<"p.md">>), Spelled(<<"a", "/", "p.md">>)}

StoreCall(op, p, h, md) ==
    /\ ~thrown
    /\ calls < MaxCalls
    /\ calls' = calls + 1
    /\ metadata' = md
    /\ call' = [op |-> op, path |-> p, hash |-> h]
    /\ UNCHANGED <<disk, thrown, pass_vars, decide_vars, tool_vars>>

SetFileInfo(p, id, h) ==
    StoreCall("set_file_info", normalize_path(p), h,
              set_file_info(metadata, normalize_path(p), id, 1, 1, EmptyId, None, h, None, None))

UpdateContentHash(p, h) ==
    StoreCall("update_content_hash", normalize_path(p), h,
              update_content_hash(metadata, normalize_path(p), h))

UpdateLocalMtime(p, m) ==
    StoreCall("update_local_mtime", normalize_path(p), NoHash,
              update_local_mtime(metadata, normalize_path(p), m))

UpdateCloudMtime(p, m) ==
    StoreCall("update_cloud_mtime", normalize_path(p), NoHash,
              update_cloud_mtime(metadata, normalize_path(p), m))

RemoveFile(p) ==
    StoreCall("remove_file", normalize_path(p),
              get_file_info(metadata, normalize_path(p)).content_hash,
              remove_file(metadata, normalize_path(p)))

\* exclude_path is normalized when it is given (NoPath for None)
FindCloudFileByHash(h, x) ==
    LET exclude == IF x = NoPath THEN NoPath ELSE normalize_path(x)
    IN StoreCall("find_cloud_file_by_hash", exclude, h,
                 find_cloud_file_by_hash(metadata, h, exclude).md)

NextStore ==
    \/ \E p \in IndexPaths, id \in StoreIds, h \in StoreHashes \cup {NoHash} :
          SetFileInfo(p, id, h)
    \/ \E p \in IndexPaths, h \in StoreHashes : UpdateContentHash(p, h)
    \/ \E p \in IndexPaths, m \in 1..MaxMtime : UpdateLocalMtime(p, m)
    \/ \E p \in IndexPaths, m \in 1..MaxMtime : UpdateCloudMtime(p, m)
    \/ \E p \in IndexPaths : RemoveFile(p)
    \/ \E h \in StoreHashes, x \in IndexPaths \cup {NoPath} : FindCloudFileByHash(h, x)

SpecStore == Init /\ [][NextStore]_vars

(***************************************************************************)
(* The metadata file.  A JSON value is a tagged record; an object holds    *)
(* its members as a dict, in the order they were written.  Ids and hashes  *)
(* are JSON strings, times are JSON numbers, Python's None is null.        *)
(***************************************************************************)
JNull == [t |-> "null"]
JNum(n) == [t |-> "num", num |-> n]
JId(i) == [t |-> "id", id |-> i]
JHash(h) == [t |-> "hash", hash |-> h]
JText(s) == [t |-> "text", text |-> s]
JArr == [t |-> "arr"]
JObj(d) == [t |-> "obj", d |-> d]
JTime(m) == IF m = None THEN JNull ELSE JNum(m)
PutIf(d, cond, k, v) == IF cond THEN DictSet(d, k, v) ELSE d

\* json.dump of one file record: the keys the record has (a key that
\* set_file_info left out is not written); a key this program does not know
\* is written as it was read
record_to_json(r) ==
    LET d0 == DictSet(DictSet(DictSet(EmptyDict, "file_id", JId(r.file_id)),
                              "cloud_mtime", JTime(r.cloud_mtime)),
                      "local_mtime", JTime(r.local_mtime))
        d1 == PutIf(d0, r.parent_id # EmptyId, "parent_id", JId(r.parent_id))
        d2 == PutIf(d1, r.domain # None, "domain", JNum(r.domain))
        d3 == PutIf(d2, r.content_hash # NoHash, "content_hash", JHash(r.content_hash))
        d4 == PutIf(d3, r.create_time # 0, "create_time", JNum(r.create_time))
        d5 == PutIf(d4, "extra" \in DOMAIN r, "extra", r.extra)
    IN JObj(d5)

\* json.dump of one directory record
dir_to_json(r) ==
    JObj(PutIf(DictSet(EmptyDict, "dir_id", JId(r.dir_id)),
               r.parent_id # EmptyId, "parent_id", JId(r.parent_id)))

\* json.dump(self._data)
to_json(md) ==
    JObj(DictSet(DictSet(EmptyDict, "files",
                         JObj([keys |-> md.files.keys,
                               val |-> [i \in 1..Len(md.files.val) |->
                                           record_to_json(md.files.val[i])]])),
                 "directories",
                 JObj([keys |-> md.directories.keys,
                       val |-> [i \in 1..Len(md.directories.val) |->
                                   dir_to_json(md.directories.val[i])]])))

\* a file record as json.load gives it back: a dict with the members read,
\* a missing key showing as its falsy stand-in
record_from_json(o) ==
    LET Member(k, dflt) == IF DictHas(o.d, k) THEN DictGet(o.d, k) ELSE dflt
        cm == Member("cloud_mtime", JNull)
        lm == Member("local_mtime", JNull)
        known == [file_id |-> Member("file_id", JId(EmptyId)).id,
                  cloud_mtime |-> IF cm = JNull THEN None ELSE cm.num,
                  local_mtime |-> IF lm = JNull THEN None ELSE lm.num,
                  parent_id |-> Member("parent_id", JId(EmptyId)).id,
                  domain |-> Member("domain", JNum(None)).num,
                  content_hash |-> Member("content_hash", JHash(NoHash)).hash,
                  create_time |-> Member("create_time", JNum(0)).num,
                  present |-> TRUE]
    IN IF DictHas(o.d, "extra")
       THEN [k \in DOMAIN known \cup {"extra"} |->
                IF k = "extra" THEN DictGet(o.d, "extra") ELSE known[k]]
       ELSE known

dir_from_json(o) ==
    [dir_id |-> DictGet(o.d, "dir_id").id,
     parent_id |-> IF DictHas(o.d, "parent_id") THEN DictGet(o.d, "parent_id").id
                   ELSE EmptyId]

\* A variant of the rebuild that leaves the index empty.
rebuild_hash_index_empty(files) == EmptyFn

\* SyncMetadata._rebuild_hash_index: for every hash held by a record with a
\* file_id, the first such path in the order of the dict
rebuild_hash_index(files) ==
    LET held == {files.val[i].content_hash : i \in
                    {j \in 1..Len(files.val) : /\ files.val[j].content_hash # NoHash
                                               /\ files.val[j].file_id # EmptyId}}
    IN [h \in held |-> FirstHolder(files, h, NoPath)]

\* SyncMetadata.load on a fresh instance: whether it raised, and the store.
\* load catches json.JSONDecodeError and IOError only.  A value that is not
\* an object raises TypeError ("files" not in it, then the item assignment,
\* or the membership test itself); a "files" that is not an object, or a
\* record that is not one, raises AttributeError in _rebuild_hash_index.
\* The files tried keep "directories" an object when they have it.
load(c) ==
    IF c.kind = "absent" \/ c.kind = "text"
    THEN [raised |-> FALSE, md |-> EmptyMetadata]
    ELSE IF c.value.t # "obj" THEN [raised |-> TRUE, md |-> EmptyMetadata]
    ELSE LET top == c.value.d
             files == IF DictHas(top, "files") THEN DictGet(top, "files") ELSE JObj(EmptyDict)
             dirs == IF DictHas(top, "directories") THEN DictGet(top, "directories")
                     ELSE JObj(EmptyDict)
         IN IF files.t # "obj" THEN [raised |-> TRUE, md |-> EmptyMetadata]
            ELSE IF \E i \in 1..Len(files.d.val) : files.d.val[i].t # "obj"
            THEN [raised |-> TRUE, md |-> EmptyMetadata]
            ELSE LET fs == [keys |-> files.d.keys,
                            val |-> [i \in 1..Len(files.d.val) |->
                                        record_from_json(files.d.val[i])]]
                     ds == [keys |-> dirs.d.keys,
                            val |-> [i \in 1..Len(dirs.d.val) |->
                                        dir_from_json(dirs.d.val[i])]]
                 IN [raised |-> FALSE,
                     md |-> [files |-> fs, directories |-> ds,
                             hash_index |-> rebuild_hash_index(fs)]]

(***************************************************************************)
(* A SyncMetadata and its file: records set and removed under the paths    *)
(* callers spell, the file saved, a fresh instance constructed on it, and  *)
(* the file written by something else in between (an editor, a crash, a    *)
(* version that writes keys this one does not know).                       *)
(***************************************************************************)
FilePaths == {Spelled(<<"p.md">>), Spelled(<<"/", "p.md">>), Spelled(<<"a", "\\", "p.md">>)}
DirPaths == {Spelled(<<"a">>), Spelled(<<"a", "/">>)}
FileHash == compute_content_hash(<<"x">>)

\* files json.load rejects or that lack the shape {"files": {path: {...}},
\* "directories": {path: {...}}}:  garbage,  [],  {},  {"files": []},
\* {"files": {"p.md": 5}, "directories": {}}
MalformedFiles ==
    {Garbage,
     JsonFile(JArr),
     JsonFile(JObj(EmptyDict)),
     JsonFile(JObj(DictSet(EmptyDict, "files", JArr))),
     JsonFile(JObj(DictSet(DictSet(EmptyDict, "files",
                                   JObj(DictSet(EmptyDict, Spelled(<<"p.md">>), JNum(5)))),
                           "directories", JObj(EmptyDict))))}
\* a file of the right shape whose record has a key this program does not
\* write
ForeignRecord ==
    JObj(DictSet(DictSet(DictSet(DictSet(DictSet(EmptyDict,
            "file_id", JId(SyncedId)), "cloud_mtime", JNum(1)), "local_mtime", JNum(1)),
            "content_hash", JHash(FileHash)), "extra", JText("v")))
ForeignFiles ==
    {JsonFile(JObj(DictSet(DictSet(EmptyDict, "files",
                                   JObj(DictSet(EmptyDict, Spelled(<<"p.md">>), ForeignRecord))),
                           "directories", JObj(EmptyDict))))}

SetDirInfo(p, id) ==
    StoreCall("set_dir_info", normalize_path(p), NoHash,
              set_dir_info(metadata, normalize_path(p), id, EmptyId))

RemoveDir(p) ==
    StoreCall("remove_dir", normalize_path(p), NoHash, remove_dir(metadata, normalize_path(p)))

\* SyncMetadata.save: the file is replaced as a whole, or an IOError leaves
\* it as it was and save returns False
Save(ok) ==
    /\ ~thrown
    /\ calls < MaxCalls
    /\ calls' = calls + 1
    /\ disk' = IF ok THEN JsonFile(to_json(metadata)) ELSE disk
    /\ call' = [op |-> IF ok THEN "save" ELSE "save_failed", path |-> NoPath, hash |-> NoHash]
    /\ UNCHANGED <<metadata, thrown, pass_vars, decide_vars, tool_vars>>

\* SyncMetadata(metadata_path): a fresh instance on the file
Load ==
    /\ calls < MaxCalls
    /\ calls' = calls + 1
    /\ thrown' = load(disk).raised
    /\ metadata' = load(disk).md
    /\ call' = [op |-> "load", path |-> NoPath, hash |-> NoHash]
    /\ UNCHANGED <<disk, pass_vars, decide_vars, tool_vars>>

\* something else writes the file
DiskWrite(c) ==
    /\ calls < MaxCalls
    /\ calls' = calls + 1
    /\ disk' = c
    /\ call' = [op |-> "disk_write", path |-> NoPath, hash |-> NoHash]
    /\ UNCHANGED <<metadata, thrown, pass_vars, decide_vars, tool_vars>>

NextFile ==
    \/ \E p \in FilePaths, id \in StoreIds, h \in {FileHash, NoHash} : SetFileInfo(p, id, h)
    \/ \E p \in FilePaths : RemoveFile(p)
    \/ \E p \in DirPaths, id \in StoreIds : SetDirInfo(p, id)
    \/ \E p \in DirPaths : RemoveDir(p)
    \/ \E ok \in BOOLEAN : Save(ok)
    \/ Load
    \/ \E c \in MalformedFiles \cup ForeignFiles : DiskWrite(c)

SpecFile == Init /\ [][NextFile]_vars

(***************************************************************************)
(* SyncMetadata.save, step by step: makedirs, mkstemp, json.dump into the  *)
(* temporary sibling, close, os.replace, return.  A step may raise, and    *)
(* the process may die between any two steps.                              *)
(***************************************************************************)
\* the write of the document, or of a part of it, through the handle of the
\* temporary file: it never touches the metadata file
save_write_in_place(d, t, c) == [disk |-> c, tmp |-> t]
save_write(d, t, c) == [disk |-> d, tmp |-> c]
\* os.replace(tmp_path, self.metadata_path)
save_replace(d, t) == [disk |-> t, tmp |-> NoFile]

SaveIdle == sv.pc = "idle" /\ sv.result # "crashed"

\* save() is entered: the document is the store as it is now
SaveBegin ==
    /\ SaveIdle
    /\ ~thrown
    /\ calls < MaxCalls
    /\ calls' = calls + 1
    /\ sv' = [pc |-> "begun", tmp |-> NoFile, before |-> disk,
              doc |-> JsonFile(to_json(metadata)), result |-> "none"]
    /\ call' = [op |-> "save_begin", path |-> NoPath, hash |-> NoHash]
    /\ UNCHANGED <<disk, metadata, thrown, pass_vars, decide_vars, dd, wt, pool, pg>>

\* os.makedirs and tempfile.mkstemp: an empty sibling
SaveMkstemp ==
    /\ sv.pc = "begun"
    /\ sv' = [sv EXCEPT !.pc = "open", !.tmp = Truncated]
    /\ UNCHANGED <<disk, metadata, thrown, call, calls, pass_vars, decide_vars, dd, wt, pool, pg>>

\* json.dump has written a part of the document
SaveDump ==
    /\ sv.pc = "open"
    /\ sv' = [sv EXCEPT !.pc = "dumping", !.tmp = save_write(disk, sv.tmp, Truncated).tmp]
    /\ disk' = save_write(disk, sv.tmp, Truncated).disk
    /\ UNCHANGED <<metadata, thrown, call, calls, pass_vars, decide_vars, dd, wt, pool, pg>>

\* json.dump has written the rest and the with block has closed the handle
SaveClose ==
    /\ sv.pc = "dumping"
    /\ sv' = [sv EXCEPT !.pc = "closed", !.tmp = save_write(disk, sv.tmp, sv.doc).tmp]
    /\ disk' = save_write(disk, sv.tmp, sv.doc).disk
    /\ UNCHANGED <<metadata, thrown, call, calls, pass_vars, decide_vars, dd, wt, pool, pg>>

SaveReplace ==
    /\ sv.pc = "closed"
    /\ sv' = [sv EXCEPT !.pc = "replaced", !.tmp = save_replace(disk, sv.tmp).tmp]
    /\ disk' = save_replace(disk, sv.tmp).disk
    /\ UNCHANGED <<metadata, thrown, call, calls, pass_vars, decide_vars, dd, wt, pool, pg>>

SaveReturn ==
    /\ sv.pc = "replaced"
    /\ sv' = [sv EXCEPT !.pc = "idle", !.result = "true"]
    /\ UNCHANGED <<disk, metadata, thrown, call, calls, pass_vars, decide_vars, dd, wt, pool, pg>>

\* the step about to be taken raises: the temporary file is unlinked (which
\* may itself fail), an IOError makes save return False and anything else
\* propagates
SaveFail(unlinked, res) ==
    /\ sv.pc \in {"begun", "open", "dumping", "closed"}
    /\ sv' = [sv EXCEPT !.pc = "idle", !.result = res,
                        !.tmp = IF unlinked THEN NoFile ELSE sv.tmp]
    /\ UNCHANGED <<disk, metadata, thrown, call, calls, pass_vars, decide_vars, dd, wt, pool, pg>>

\* the process dies inside save(): the files stay as they are
SaveCrash ==
    /\ sv.pc # "idle"
    /\ sv' = [sv EXCEPT !.pc = "idle", !.result = "crashed"]
    /\ UNCHANGED <<disk, metadata, thrown, call, calls, pass_vars, decide_vars, dd, wt, pool, pg>>

\* the program is started again: SyncMetadata(metadata_path)
Restart ==
    /\ sv.pc = "idle"
    /\ calls < MaxCalls
    /\ calls' = calls + 1
    /\ thrown' = load(disk).raised
    /\ metadata' = load(disk).md
    /\ call' = [op |-> "load", path |-> NoPath, hash |-> NoHash]
    /\ sv' = [sv EXCEPT !.result = "none"]
    /\ UNCHANGED <<disk, pass_vars, decide_vars, dd, wt, pool, pg>>

NextSave ==
    \/ \E p \in FilePaths, id \in StoreIds, h \in {FileHash, NoHash} :
           SaveIdle /\ SetFileInfo(p, id, h)
    \/ \E p \in FilePaths : SaveIdle /\ RemoveFile(p)
    \/ SaveBegin
    \/ SaveMkstemp
    \/ SaveDump
    \/ SaveClose
    \/ SaveReplace
    \/ SaveReturn
    \/ \E unlinked \in BOOLEAN, res \in {"false", "raised"} : SaveFail(unlinked, res)
    \/ SaveCrash
    \/ Restart

SpecSave == Init /\ [][NextSave]_vars

(***************************************************************************)
(* auto_dedup on its own: a tree of Markdown files and attachments, some   *)
(* of them recorded by earlier passes, and one call of auto_dedup on it.   *)
(***************************************************************************)
MaxDedupFiles == 3
\* the bodies of the model: text, the same text behind a byte order mark, a
\* byte order mark alone, nothing, and links to the attachments
DedupContents(p) ==
    IF p = File("", "p")
    THEN {<<"x">>, <<"BOM", "x">>, <<"BOM">>, <<>>, <<RefToken>>, <<RefToken, RefSubToken>>}
    ELSE IF p = File("", "q") THEN {<<"x">>, <<"BOM">>, <<>>}
    ELSE {<<"x">>}
\* what the store holds on a file: no record, a record without cloud id, or
\* a record with one; whether the record has the digest of the file; and the
\* create time recorded (0 when the cloud gave none)
RecordKinds(p) ==
    LET none == [rec |-> "none", cached |-> FALSE, ct |-> 0]
        loc == [rec |-> "local", cached |-> TRUE, ct |-> 0]
        fresh == [rec |-> "cloud", cached |-> FALSE, ct |-> 0]
        synced(t) == [rec |-> "cloud", cached |-> TRUE, ct |-> t]
    IN IF p = File("", "p") THEN {none, loc, fresh, synced(2)}
       ELSE IF p = File("", "q") THEN {none, loc} \cup {synced(t) : t \in {1, 2}}
       ELSE IF p = File("", "qq") THEN {synced(1)}
       ELSE {loc, synced(1)}

\* a file appears in the tree, with the record and the cloud node an earlier
\* pass has left (the store was saved by that pass)
PutFile(p, c, k) ==
    /\ ~dd.done
    /\ p \notin DOMAIN local
    /\ Cardinality({q \in DOMAIN local : ~local[q].is_dir}) < MaxDedupFiles
    /\ \A q \in DOMAIN local : ~local[q].is_dir => WalkIndex(q) < WalkIndex(p)
    /\ LET made == IF IsTopLevel(p) \/ Dirname(p) \in DOMAIN local THEN local
                   ELSE FnSet(local, Dirname(p),
                              [is_dir |-> TRUE, mtime |-> 1, content |-> <<>>])
           id == IF k.rec = "cloud" THEN next_id ELSE EmptyId
           md == IF k.rec = "none" THEN metadata
                 ELSE set_file_info(metadata, p, id, 1, 1, RootId, 1,
                                    IF k.cached THEN compute_content_hash(c) ELSE NoHash,
                                    k.ct, None)
       IN /\ local' = FnSet(made, p, [is_dir |-> FALSE, mtime |-> 1, content |-> c])
          /\ metadata' = md
          /\ disk' = JsonFile(to_json(md))
          /\ cloud' = IF k.rec = "cloud"
                      THEN FnSet(cloud, next_id,
                                 [path |-> p, is_dir |-> FALSE, mtime |-> 1, ctime |-> k.ct,
                                  content |-> c, parent_id |-> RootId])
                      ELSE cloud
          /\ next_id' = IF k.rec = "cloud" THEN next_id + 1 ELSE next_id
    /\ UNCHANGED <<stats, ops, pc, direction, items, labelled, todo, now, passes, ext,
                   settled, second, retry, scan, renamed, decide_vars, thrown, call, calls,
                   sv, dd, wt, pool, pg>>

\* auto_dedup(root, metadata, api, dry_run).  metadata.save() writes the
\* store as it is at that point; when the file cannot be written save()
\* returns False and the file is left.
Dedup(api, dry_run) ==
    /\ ~dd.done
    /\ \E r \in auto_dedup(World, api, dry_run) :
          /\ local' = r.w.local
          /\ cloud' = r.w.cloud
          /\ metadata' = r.w.metadata
          /\ \E writable \in BOOLEAN :
                disk' = IF r.saved_end /\ writable THEN JsonFile(to_json(r.w.metadata))
                        ELSE IF r.saved_index /\ writable THEN JsonFile(to_json(r.indexed))
                        ELSE disk
          /\ dd' = [done |-> TRUE, api |-> api, dry_run |-> dry_run, stats |-> r.stats,
                    actions |-> r.actions,
                    before |-> [local |-> local, cloud |-> cloud, metadata |-> metadata,
                                disk |-> disk]]
    /\ UNCHANGED <<next_id, stats, ops, pc, direction, items, labelled, todo, now, passes,
                   ext, settled, second, retry, scan, renamed, decide_vars, thrown, call,
                   calls, sv, wt, pool, pg>>

\* the files of the trees auto_dedup is called on
DedupPaths == SeqToSet(WalkOrder) \ {File("a", "q")}

NextDedup ==
    \/ \E p \in DedupPaths : \E c \in DedupContents(p), k \in RecordKinds(p) :
           PutFile(p, c, k)
    \/ \E api \in BOOLEAN : Dedup(api, FALSE)
    \/ Dedup(TRUE, TRUE)

SpecDedup == Init /\ [][NextDedup]_vars

(***************************************************************************)
(* SyncWatcher: the main loop of start() (one thread), the observer thread *)
(* that delivers filesystem events to _LocalChangeHandler, and the clock.  *)
(* A pass takes time: the clock advances and events arrive while it runs.  *)
(***************************************************************************)
MaxClock == 5
MaxEvents == 2
\* SyncWatcher(api, local_dir, poll_interval, debounce_seconds), in seconds
PollInterval == 3
Debounce == 2

\* filesystem events: a change of p.md, of q.md, of a directory, of a file
\* that is no Markdown file, of a file under .git/ and of a conflict backup
WatchEvents ==
    {[src |-> "p.md", is_directory |-> FALSE, md |-> TRUE, git |-> FALSE, conflict |-> FALSE],
     [src |-> "q.md", is_directory |-> FALSE, md |-> TRUE, git |-> FALSE, conflict |-> FALSE],
     [src |-> "a", is_directory |-> TRUE, md |-> FALSE, git |-> FALSE, conflict |-> FALSE],
     [src |-> "p.txt", is_directory |-> FALSE, md |-> FALSE, git |-> FALSE, conflict |-> FALSE],
     [src |-> ".git/p.md", is_directory |-> FALSE, md |-> TRUE, git |-> TRUE, conflict |-> FALSE],
     [src |-> "p.conflict.1.md", is_directory |-> FALSE, md |-> TRUE, git |-> FALSE,
      conflict |-> TRUE]}
\* on_any_event: the events it records
accepted(e) == ~e.is_directory /\ e.md /\ ~e.git /\ ~e.conflict
\* now - t >= self.debounce_seconds
is_ready_never(t_now, t) == FALSE
is_ready_at_once(t_now, t) == t_now >= t
is_ready(t_now, t) == t_now - t >= Debounce
ready_paths(pending, t_now) == {p \in DOMAIN pending : is_ready(t_now, pending[p])}
\* now - last_poll >= self.poll_interval
poll_due(t_now, last_poll) == t_now - last_poll >= PollInterval
\* what has happened to a path so far, kept beside the watcher's own fields:
\* the time of its latest accepted event, the number of its accepted events,
\* the number of those that did not fall within debounce_seconds of the one before (bursts), and
\* the number of passes started for it
NoHist == [last |-> 0, events |-> 0, bursts |-> 0, passes |-> 0]
hist_of(h, p) == IF p \in DOMAIN h THEN h[p] ELSE NoHist
hist_event(h, p, t) ==
    LET o == hist_of(h, p)
        n == [last |-> t, events |-> o.events + 1, passes |-> o.passes,
              bursts |-> IF o.bursts = 0 \/ t - o.last >= Debounce
                         THEN o.bursts + 1 ELSE o.bursts]
    IN [q \in DOMAIN h \cup {p} |-> IF q = p THEN n ELSE h[q]]
hist_pass(h, ready) ==
    [q \in DOMAIN h |-> IF q \in ready THEN [h[q] EXCEPT !.passes = @ + 1] ELSE h[q]]
\* _do_sync's finally: self._syncing = False
do_sync_finally_on_success(raised) == raised
do_sync_finally(raised) == FALSE
\* where _do_sync returns to: after the startup pass last_poll is taken and
\* the loop begins, after the pass for local changes the poll check follows,
\* after the poll pass the loop goes round
after_sync(w) ==
    IF w.reason = "startup" THEN [w EXCEPT !.pc = "loop", !.last_poll = w.clock]
    ELSE IF w.reason = "ready" THEN [w EXCEPT !.pc = "poll_check"]
    ELSE [w EXCEPT !.pc = "loop"]

WatchFrame == UNCHANGED <<sync_vars, decide_vars, store_vars, sv, dd, pool, pg>>

\* start(): the observer is started and the startup pass is called
WatchStart ==
    /\ wt = NoWatch
    /\ wt' = [wt EXCEPT !.running = TRUE, !.observer = TRUE, !.pc = "call",
                        !.reason = "startup"]
    /\ WatchFrame

\* _do_sync, up to the call of sync(): a call made while the flag is set
\* returns at once
DoSyncEnter ==
    /\ wt.pc = "call"
    /\ wt' = IF wt.syncing THEN after_sync(wt)
             ELSE [wt EXCEPT !.syncing = TRUE, !.pc = "pass", !.in_progress = @ + 1,
                             !.late = @ \/ ~wt.running,
                             !.hist = IF wt.reason = "ready" THEN hist_pass(@, wt.ready)
                                      ELSE @]
    /\ WatchFrame

\* sync() returns or raises an Exception, which is logged; the finally
\* clause follows
DoSyncEnd(raised) ==
    /\ wt.pc = "pass"
    /\ wt' = after_sync([wt EXCEPT !.syncing = do_sync_finally(raised),
                                   !.in_progress = @ - 1])
    /\ WatchFrame

\* while self._running: time.sleep(1)
WatchSleep ==
    /\ wt.pc = "loop" /\ wt.running
    /\ wt' = [wt EXCEPT !.pc = "ready_check",
                        !.clock = IF @ < MaxClock THEN @ + 1 ELSE @]
    /\ WatchFrame

\* now = time.time(), read before the lock is taken
ReadNow ==
    /\ wt.pc = "ready_check"
    /\ wt' = [wt EXCEPT !.now = wt.clock, !.pc = "lock"]
    /\ WatchFrame

\* with self._pending_lock: the mature entries leave the pending map and
\* call for one pass
ReadyCheck ==
    /\ wt.pc = "lock"
    /\ LET ready == ready_paths(wt.pending, wt.now)
       IN wt' = [wt EXCEPT !.ready = ready,
                           !.pending = [p \in DOMAIN wt.pending \ ready |-> wt.pending[p]],
                           !.pc = IF ready # {} THEN "call" ELSE "poll_check",
                           !.reason = IF ready # {} THEN "ready" ELSE @]
    /\ WatchFrame

\* the cloud poll, with the now read before the pass for local changes
PollCheck ==
    /\ wt.pc = "poll_check"
    /\ wt' = IF poll_due(wt.now, wt.last_poll)
             THEN [wt EXCEPT !.last_poll = wt.now, !.pc = "call", !.reason = "poll"]
             ELSE [wt EXCEPT !.pc = "loop"]
    /\ WatchFrame

\* stop(), called from another thread
WatchStop ==
    /\ wt.running
    /\ wt' = [wt EXCEPT !.running = FALSE]
    /\ WatchFrame

\* the loop ends: finally, the observer is stopped
LoopExit ==
    /\ wt.pc = "loop" /\ ~wt.running
    /\ wt' = [wt EXCEPT !.pc = "stopped", !.observer = FALSE]
    /\ WatchFrame

\* Ctrl+C: KeyboardInterrupt is raised in the main thread, wherever it is.
\* It is no Exception, so _do_sync does not catch it: a pass in progress is
\* left where it is and only the finally clause of _do_sync runs. Inside the
\* try block of start() the except and finally clauses follow; the startup
\* pass is called before that block, and the exception leaves start() with
\* the observer running and _running set.
in_try_block(w) == ~(w.reason = "startup" /\ w.pc \in {"call", "pass"})
WatchInterrupt ==
    /\ wt.pc \notin {"stopped", "raised"}
    /\ wt' = [wt EXCEPT !.syncing = FALSE, !.in_progress = 0,
                        !.aborted = @ \/ wt.pc = "pass",
                        !.running = IF in_try_block(wt) THEN FALSE ELSE @,
                        !.observer = IF in_try_block(wt) THEN FALSE ELSE @,
                        !.pc = IF in_try_block(wt) THEN "stopped" ELSE "raised"]
    /\ WatchFrame

\* the observer thread delivers an event to on_any_event
WatchEvent(e) ==
    /\ wt.observer /\ wt.pc # "raised"
    /\ wt.events < MaxEvents
    /\ wt.clock + Debounce <= MaxClock
    /\ wt' = [wt EXCEPT !.events = @ + 1,
                        !.hist = IF accepted(e) THEN hist_event(@, e.src, wt.clock) ELSE @,
                        !.pending = IF accepted(e)
                                    THEN [p \in DOMAIN @ \cup {e.src} |->
                                            IF p = e.src THEN wt.clock ELSE @[p]]
                                    ELSE @]
    /\ WatchFrame

\* time passes
WatchTick ==
    /\ wt.pc \notin {"stopped", "raised"}
    /\ wt.clock < MaxClock
    /\ wt' = [wt EXCEPT !.clock = @ + 1]
    /\ WatchFrame

MainThread ==
    \/ DoSyncEnter
    \/ \E raised \in BOOLEAN : DoSyncEnd(raised)
    \/ WatchSleep
    \/ ReadNow
    \/ ReadyCheck
    \/ PollCheck
    \/ LoopExit

NextWatch ==
    \/ WatchStart
    \/ MainThread
    \/ WatchStop
    \/ WatchInterrupt
    \/ \E e \in WatchEvents : WatchEvent(e)
    \/ WatchTick

\* the main thread is scheduled and sync() ends
SpecWatch == Init /\ [][NextWatch]_vars /\ WF_vars(MainThread)

(***************************************************************************)
(* SyncManager._execute_all with its pool of workers.  The serial          *)
(* directory loop is ExecDir; each worker runs _execute on one item, and   *)
(* an upload is taken through _do_upload step by step: a step is one       *)
(* access to the shared store or one call of the cloud's API.  "with       *)
(* self._lock:" blocks that hold no save() are one step each.              *)
(***************************************************************************)
SubDir(d, s) == [dir |-> d, stem |-> s, conf |-> <<>>, ext |-> ""]
PoolPaths ==
    {Dir("a"), SubDir("a", "b"), File("", "p"), File("", "q"), File("a", "p"), File("a", "q")}

Node(p, is_dir, m, par) ==
    [path |-> p, is_dir |-> is_dir, mtime |-> m, ctime |-> m,
     content |-> IF is_dir THEN <<>> ELSE <<"z">>, parent_id |-> par]
Entry(is_dir, m, c) == [is_dir |-> is_dir, mtime |-> m, content |-> c]
Tree(S) == [p \in {e[1] : e \in S} |-> (CHOOSE e \in S : e[1] = p)[2]]
\* the trees a first pass of a new SyncManager meets, with an empty store and
\* no metadata file
PoolWorlds ==
    {\* the cloud holds a/ and a/b/, the local root is empty
     [local |-> EmptyFn,
      cloud |-> Tree({<<2, Node(Dir("a"), TRUE, 1, RootId)>>,
                      <<3, Node(SubDir("a", "b"), TRUE, 1, 2)>>})],
     \* a/ on both sides, the local one touched later
     [local |-> Tree({<<Dir("a"), Entry(TRUE, 2, <<>>)>>}),
      cloud |-> Tree({<<2, Node(Dir("a"), TRUE, 1, RootId)>>})],
     \* two new notes in a new local directory
     [local |-> Tree({<<Dir("a"), Entry(TRUE, 1, <<>>)>>,
                      <<File("a", "p"), Entry(FALSE, 1, <<"x">>)>>,
                      <<File("a", "q"), Entry(FALSE, 1, <<"y">>)>>}),
      cloud |-> EmptyFn],
     \* three new notes, one of them in a new local directory
     [local |-> Tree({<<Dir("a"), Entry(TRUE, 1, <<>>)>>,
                      <<File("", "p"), Entry(FALSE, 1, <<"x">>)>>,
                      <<File("", "q"), Entry(FALSE, 1, <<"y">>)>>,
                      <<File("a", "p"), Entry(FALSE, 1, <<"x", "y">>)>>}),
      cloud |-> EmptyFn],
     \* one new note
     [local |-> Tree({<<File("", "p"), Entry(FALSE, 1, <<"x">>)>>}),
      cloud |-> EmptyFn],
     \* the cloud holds p.note and p.md
     [local |-> EmptyFn,
      cloud |-> Tree({<<2, Node([File("", "p") EXCEPT !.ext = ".note"], FALSE, 1, RootId)>>,
                      <<3, Node(File("", "p"), FALSE, 1, RootId)>>})]}

InitPool ==
    /\ \E w \in PoolWorlds :
          /\ local = w.local
          /\ cloud = w.cloud
          /\ next_id = RootId + 1 + Cardinality(DOMAIN w.cloud)
    /\ metadata = EmptyMetadata
    /\ settled = FALSE
    /\ stats = empty_stats /\ ops = EmptyFn /\ pc = "idle" /\ direction = "both"
    /\ items = {} /\ labelled = EmptyFn /\ todo = {}
    /\ now = MaxMtime /\ passes = 0 /\ ext = 0
    /\ second = FALSE /\ retry = EmptyFn /\ scan = "none" /\ renamed = NoRename
    /\ d_in = NoDecision /\ d_out = "none"
    /\ StoreInit

PoolFrame ==
    UNCHANGED <<pc, direction, items, labelled, todo, now, passes, ext, settled, second,
                retry, d_in, d_out, scan, renamed, thrown, call, calls, sv, dd, wt, pg>>

\* the pool with worker t at position r
SetWorker(pl, t, r) == [pl EXCEPT !.th[t] = r]
\* the store has become md, by a thread that held _lock (locked) or did not
Wrote(pl, md, locked) ==
    [pl EXCEPT !.docs = @ \cup {to_json(md)},
               !.bare = @ \/ (md # metadata /\ ~locked)]
Count(f, k) == IF k \in DOMAIN f THEN f[k] ELSE 0

\* sync(): the first pass, in both directions, the cloud listed
PoolStart ==
    /\ passes < MaxPoolPasses
    /\ StartPass("both", TRUE)

\* the directories are done: count the SKIP files, submit the others
PoolDispatch ==
    /\ pc = "dirs"
    /\ pool.queue = {}
    /\ \A p \in todo : ~ItemOf(p).is_dir
    /\ LET skips == {p \in todo : ItemOf(p).action = "skip"}
       IN /\ stats' = [stats EXCEPT !.skipped = @ + Cardinality(skips)]
          /\ todo' = todo \ skips
          /\ pool' = [pool EXCEPT !.queue = {i \in items : i.relative_path \in todo \ skips},
                                  !.docs = {to_json(metadata)}]
    /\ pc' = "pool"
    /\ UNCHANGED <<local, cloud, metadata, next_id, ops, direction, items, labelled, now,
                   passes, ext, settled, second, retry, d_in, d_out, scan, renamed,
                   store_vars, sv, dd, wt, pg>>

\* a free worker takes an item off the queue
Take(t, item) ==
    /\ pc = "pool"
    /\ pool.th[t].pc = "idle"
    /\ item \in pool.queue
    /\ pool' = [SetWorker(pool, t,
                  [IdleWorker EXCEPT !.path = item.relative_path,
                                     !.pc = IF item.action = "upload" THEN "lookup"
                                            ELSE "other"])
                EXCEPT !.queue = @ \ {item}]
    /\ UNCHANGED <<local, cloud, metadata, next_id, stats, ops, disk>>
    /\ PoolFrame

\* _do_download or _do_conflict, as one step
WOther(t) ==
    /\ pc = "pool"
    /\ pool.th[t].pc = "other"
    /\ pool.lock = 0
    /\ LET item == ItemOf(pool.th[t].path)
       IN \E w \in (IF item.action = "download" THEN do_download(World, item)
                    ELSE do_conflict(World, item, direction)) :
             /\ Becomes(w)
             /\ pool' = SetWorker(Wrote(pool, w.metadata, TRUE), t, IdleWorker)
    /\ UNCHANGED disk
    /\ PoolFrame

\* _do_upload: the file is there, its hash is looked up under the lock
WLookup(t) ==
    /\ pc = "pool"
    /\ pool.th[t].pc = "lookup"
    /\ pool.lock = 0
    /\ LET p == pool.th[t].path
           look == find_cloud_file_by_hash(metadata,
                                           compute_content_hash(local[p].content), p)
           w0 == [World EXCEPT !.metadata = look.md]
       IN IF look.found # NoPath
          THEN /\ Becomes(Bump(Note(w0, p, "upload_shortcut"), "skipped"))
               /\ pool' = SetWorker(Wrote(pool, look.md, TRUE), t, IdleWorker)
          ELSE /\ Becomes(w0)
               /\ pool' = SetWorker(Wrote(pool, look.md, TRUE), t,
                                    [pool.th[t] EXCEPT !.pc = "parent"])
    /\ UNCHANGED disk
    /\ PoolFrame

\* item.cloud_parent_id or ensure_parent_dir(rel), up to its look into the
\* directory records: get_dir_id is called without the lock
WParent(t) ==
    /\ pc = "pool"
    /\ pool.th[t].pc = "parent"
    /\ LET p == pool.th[t].path
           item == ItemOf(p)
           known == IF item.cloud_parent_id # EmptyId THEN item.cloud_parent_id
                    ELSE IF IsTopLevel(p) THEN RootId
                    ELSE get_dir_id(metadata, Dirname(p))
           rooted == item.cloud_parent_id = EmptyId /\ IsTopLevel(p)
       IN \/ /\ pool' = SetWorker(pool, t,
                           IF known # EmptyId
                           THEN [pool.th[t] EXCEPT !.pc = "push", !.parent_id = known]
                           ELSE [pool.th[t] EXCEPT !.pc = "ensure"])
             /\ UNCHANGED <<local, cloud, metadata, next_id, stats, ops>>
          \/ \* get_root_dir_info_id raises: the exception leaves the worker
             /\ rooted
             /\ Becomes(Bump(Note(World, p, "upload_raised"), "errors"))
             /\ pool' = SetWorker(pool, t, IdleWorker)
    /\ UNCHANGED disk
    /\ PoolFrame

\* ensure_parent_dir(parent_rel) asks for the root, which can raise; then
\* ensure_cloud_dir looks into the directory records again
WEnsure(t) ==
    /\ pc = "pool"
    /\ pool.th[t].pc = "ensure"
    /\ LET p == pool.th[t].path
           dir_id == get_dir_id(metadata, Dirname(p))
       IN \/ /\ pool' = SetWorker(pool, t,
                           IF dir_id # EmptyId
                           THEN [pool.th[t] EXCEPT !.pc = "push", !.parent_id = dir_id]
                           ELSE [pool.th[t] EXCEPT !.pc = "create"])
             /\ UNCHANGED <<local, cloud, metadata, next_id, stats, ops>>
          \/ /\ Becomes(Bump(Note(World, p, "upload_raised"), "errors"))
             /\ pool' = SetWorker(pool, t, IdleWorker)
    /\ UNCHANGED disk
    /\ PoolFrame

\* ensure_cloud_dir: api.create_dir, then set_dir_info and the call of
\* save(), which begins to serialize the store; no lock is held
WCreate(t) ==
    /\ pc = "pool"
    /\ pool.th[t].pc = "create"
    /\ LET p == pool.th[t].path
           d == Dirname(p)
           called == [pool EXCEPT !.creates = FnSet(@, d, Count(@, d) + 1)]
       IN \E r \in create_dir(World, RootId, d.stem) :
             IF r.id = EmptyId
             THEN /\ Becomes(Bump(Note(r.w, p, "upload_no_parent"), "errors"))
                  /\ pool' = SetWorker(called, t, IdleWorker)
             ELSE LET md == set_dir_info(r.w.metadata, d, r.id, RootId)
                  IN /\ Becomes([r.w EXCEPT !.metadata = md])
                     /\ pool' = SetWorker(Wrote(called, md, FALSE), t,
                                   [pool.th[t] EXCEPT !.pc = "dump", !.parent_id = r.id,
                                                      !.began = md, !.after = "push"])
    /\ UNCHANGED disk
    /\ PoolFrame

\* what json.dump can have written when the store went from `began` to `md`
\* while it ran: "files" is serialized before "directories"
dumped(began, md) ==
    {to_json(began), to_json([began EXCEPT !.directories = md.directories]), to_json(md)}
\* a dict json.dump iterates has gained or lost a key: RuntimeError
resized(began, md) ==
    \/ DictKeys(began.files) # DictKeys(md.files)
    \/ DictKeys(began.directories) # DictKeys(md.directories)

\* save() ends: the file is replaced, or json.dump has raised.  Within
\* ensure_cloud_dir the exception is caught and no parent is returned; in
\* _do_upload's batch save it leaves the worker, and _execute_all counts it.
WDump(t) ==
    /\ pc = "pool"
    /\ pool.th[t].pc = "dump"
    /\ LET me == pool.th[t]
           p == me.path
       IN \/ /\ \E doc \in dumped(me.began, metadata) : disk' = JsonFile(doc)
             /\ IF me.after = "push"
                THEN /\ pool' = SetWorker(pool, t, [me EXCEPT !.pc = "push"])
                     /\ UNCHANGED <<stats, ops>>
                ELSE /\ pool' = [SetWorker(pool, t, IdleWorker)
                                 EXCEPT !.lock = 0, !.meta_dirty = 0]
                     /\ stats' = [stats EXCEPT !.uploaded = @ + 1]
                     /\ UNCHANGED ops
          \/ /\ resized(me.began, metadata)
             /\ disk' = disk
             /\ pool' = [SetWorker(pool, t, IdleWorker) EXCEPT !.lock = 0]
             /\ stats' = [stats EXCEPT !.errors = @ + 1]
             /\ ops' = Note(World, p, IF me.after = "push" THEN "upload_no_parent"
                                      ELSE "upload_raised").ops
    /\ UNCHANGED <<local, cloud, metadata, next_id>>
    /\ PoolFrame

\* upload_file: the push and, when it succeeds, set_file_info, which
\* _upload_markdown calls without the lock
WPush(t) ==
    /\ pc = "pool"
    /\ pool.th[t].pc = "push"
    /\ LET me == pool.th[t]
           p == me.path
           pushed == [pool EXCEPT !.parents = FnSet(@, p, me.parent_id)]
       IN \E r \in upload_file(World, p, me.parent_id, TRUE) :
             IF r.ok
             THEN /\ Becomes(r.w)
                  /\ pool' = SetWorker(Wrote(pushed, r.w.metadata, FALSE), t,
                                       [me EXCEPT !.pc = "commit"])
             ELSE /\ Becomes(Bump(r.w, "errors"))
                  /\ pool' = SetWorker(pushed, t, IdleWorker)
    /\ UNCHANGED disk
    /\ PoolFrame

\* _do_upload after a successful upload, under the lock: the hash is
\* recorded and the change counted; at METADATA_SAVE_BATCH changes save()
\* is called with the lock held
WCommit(t) ==
    /\ pc = "pool"
    /\ pool.th[t].pc = "commit"
    /\ pool.lock = 0
    /\ LET me == pool.th[t]
           p == me.path
           md == update_content_hash(metadata, p, compute_content_hash(local[p].content))
           noted == Wrote(pool, md, TRUE)
       IN /\ metadata' = md
          /\ IF pool.meta_dirty + 1 >= METADATA_SAVE_BATCH
             THEN /\ pool' = [SetWorker(noted, t, [me EXCEPT !.pc = "dump", !.began = md,
                                                            !.after = "done"])
                              EXCEPT !.lock = t, !.meta_dirty = @ + 1]
                  /\ UNCHANGED stats
             ELSE /\ pool' = [SetWorker(noted, t, IdleWorker) EXCEPT !.meta_dirty = @ + 1]
                  /\ stats' = [stats EXCEPT !.uploaded = @ + 1]
    /\ UNCHANGED <<local, cloud, next_id, ops, disk>>
    /\ PoolFrame

\* the pool is drained: sync() saves what _meta_dirty counts, then runs the
\* dedup when anything was downloaded or uploaded
PoolFinish ==
    /\ pc = "pool"
    /\ pool.queue = {}
    /\ \A t \in Workers : pool.th[t].pc = "idle"
    /\ LET saved == IF pool.meta_dirty > 0 THEN JsonFile(to_json(metadata)) ELSE disk
       IN IF stats.downloaded > 0 \/ stats.uploaded > 0
          THEN \E r \in auto_dedup(World, TRUE, FALSE) :
                  /\ Becomes([r.w EXCEPT !.stats.dedup_deleted = r.stats.deleted,
                                         !.ops = NoteRemoved(@, DOMAIN local \ DOMAIN r.w.local)])
                  /\ disk' = IF r.saved_end THEN JsonFile(to_json(r.w.metadata))
                             ELSE IF r.saved_index THEN JsonFile(to_json(r.indexed))
                             ELSE saved
          ELSE /\ disk' = saved
               /\ UNCHANGED <<local, cloud, metadata, next_id, stats, ops>>
    /\ pool' = [pool EXCEPT !.meta_dirty = 0]
    /\ pc' = "idle"
    /\ settled' = (direction = "both" /\ stats.errors = 0 /\ scan = "ok")
    /\ UNCHANGED <<direction, items, labelled, todo, now, passes, ext, second, retry,
                   d_in, d_out, scan, renamed, thrown, call, calls, sv, dd, wt, pg>>

NextPool ==
    \/ PoolStart
    \/ \E p \in PoolPaths : ExecDir(p)
    \/ PoolDispatch
    \/ \E t \in Workers : \E item \in pool.queue : Take(t, item)
    \/ \E t \in Workers : WOther(t)
    \/ \E t \in Workers : WLookup(t)
    \/ \E t \in Workers : WParent(t)
    \/ \E t \in Workers : WEnsure(t)
    \/ \E t \in Workers : WCreate(t)
    \/ \E t \in Workers : WDump(t)
    \/ \E t \in Workers : WPush(t)
    \/ \E t \in Workers : WCommit(t)
    \/ PoolFinish

SpecPool == InitPool /\ [][NextPool]_vars

(***************************************************************************)
(* YoudaoNoteApi.get_dir_info_by_id on its own (api.py): one call on a     *)
(* directory of n entries, the server answering each request with the      *)
(* page that starts at startIndex, with or without the count field.        *)
(***************************************************************************)
PageFrame == UNCHANGED <<sync_vars, decide_vars, store_vars, sv, dd, wt, pool>>

\* listPageByParentId with len = DIR_PAGE_SIZE and startIndex = offset
page_of(n, offset) ==
    [i \in 1..(IF n - offset < DIR_PAGE_SIZE THEN n - offset ELSE DIR_PAGE_SIZE)
        |-> offset + i]

\* get_dir_info_by_id(dir_id) is called: offset = 0, all_entries = []
PageCall(n) ==
    /\ pg.pc = "idle"
    /\ pg' = [NoPage EXCEPT !.pc = "request", !.n = n]
    /\ PageFrame

\* http_get and _safe_json: the server's answer to the request
PageServe(counted) ==
    /\ pg.pc = "request"
    /\ pg' = [pg EXCEPT !.pc = "response",
                        !.entries = page_of(pg.n, pg.offset),
                        !.count = IF counted THEN pg.n ELSE None,
                        !.omitted = @ \/ ~counted]
    /\ PageFrame

\* the rest of the loop body: extend, total, offset, and the test to stop
PageTake ==
    /\ pg.pc = "response"
    /\ LET total == IF pg.count # None THEN pg.count ELSE Len(pg.entries)
           offset == pg.offset + Len(pg.entries)
       IN pg' = [pg EXCEPT !.all_entries = @ \o pg.entries,
                           !.offset = offset,
                           !.pc = IF Len(pg.entries) < DIR_PAGE_SIZE \/ offset >= total
                                  THEN "done" ELSE "request"]
    /\ PageFrame

NextPage ==
    \/ \E n \in 0..MaxEntries : PageCall(n)
    \/ \E counted \in BOOLEAN : PageServe(counted)
    \/ PageTake

SpecPage == Init /\ [][NextPage]_vars /\ WF_vars(NextPage)

(***************************************************************************)
(* decide_action on its own: the arguments _build_item can pass (a side's  *)
(* mtime is None exactly when the side does not exist; a cloud listing     *)
(* without modifyTimeForSort and a file dated at the epoch give mtime 0),  *)
(* then one call.                                                          *)
(***************************************************************************)
DecideInputs ==
    {d \in [local_exists : BOOLEAN, cloud_exists : BOOLEAN,
            local_mtime : OptMtimes, cloud_mtime : OptMtimes,
            meta_local_mtime : OptMtimes, meta_cloud_mtime : OptMtimes] :
        /\ d.local_exists <=> d.local_mtime # None
        /\ d.cloud_exists <=> d.cloud_mtime # None}

InitDecide == SyncInit /\ d_in \in DecideInputs /\ d_out = "none" /\ StoreInit

Decide ==
    /\ d_out = "none"
    /\ d_out' = decide_action(d_in.local_exists, d_in.cloud_exists, d_in.local_mtime,
                              d_in.cloud_mtime, d_in.meta_local_mtime, d_in.meta_cloud_mtime)
    /\ UNCHANGED <<d_in, sync_vars, store_vars, tool_vars>>

NextDecide == Decide

SpecDecide == InitDecide /\ [][NextDecide]_vars

(***************************************************************************)
(* The decision table of the specification, first matching row first.      *)
(***************************************************************************)
TableChanged(mtime, meta_mtime) == meta_mtime = None \/ mtime > meta_mtime
DecisionTable(d) ==
    LET local_changed == TableChanged(d.local_mtime, d.meta_local_mtime)
        cloud_changed == TableChanged(d.cloud_mtime, d.meta_cloud_mtime)
    IN IF ~d.local_exists /\ ~d.cloud_exists THEN "skip"
       ELSE IF d.local_exists /\ ~d.cloud_exists THEN "upload"
       ELSE IF ~d.local_exists /\ d.cloud_exists THEN "download"
       ELSE IF local_changed /\ cloud_changed /\ d.local_mtime > d.cloud_mtime THEN "upload"
       ELSE IF local_changed /\ cloud_changed /\ d.cloud_mtime > d.local_mtime THEN "download"
       ELSE IF local_changed /\ cloud_changed THEN "conflict"
       ELSE IF local_changed THEN "upload"
       ELSE IF cloud_changed THEN "download"
       ELSE "skip"

\* C1: for every combination of arguments, mtime 0 included, decide_action
\* returns the action of the first matching row of the decision table; in
\* particular it returns CONFLICT exactly when both sides exist, both have
\* changed and the two mtimes are equal.
C1_DecideFollowsTable ==
    d_out # "none" =>
        /\ d_out = DecisionTable(d_in)
        /\ d_out = "conflict" <=>
              /\ d_in.local_exists /\ d_in.cloud_exists
              /\ TableChanged(d_in.local_mtime, d_in.meta_local_mtime)
              /\ TableChanged(d_in.cloud_mtime, d_in.meta_cloud_mtime)
              /\ d_in.local_mtime = d_in.cloud_mtime

\* C1: decide_action has answered CONFLICT for two mtimes that differ
C1_ConflictOnUnequalMtimes ==
    /\ d_out = "conflict"
    /\ d_in.local_mtime # d_in.cloud_mtime

(***************************************************************************)
(* Vocabulary of the properties below.                                     *)
(***************************************************************************)
\* the calls logged for p in the current (or last) pass
OpsOf(p) == IF p \in DOMAIN ops THEN ops[p] ELSE <<>>
Logged(p, what) == \E i \in 1..Len(OpsOf(p)) : OpsOf(p)[i] = what
LoggedBefore(p, a, b) ==
    \E i, j \in 1..Len(OpsOf(p)) : i < j /\ OpsOf(p)[i] = a /\ OpsOf(p)[j] = b
\* the backups of p on disk
BackupsOf(loc, p) ==
    {b \in DOMAIN loc : b.dir = p.dir /\ b.stem = p.stem /\ b.ext = p.ext /\ b.conf # <<>>}
\* the file paths labelled CONFLICT by the scan of the current (or last) pass
ConflictFiles == {p \in DOMAIN labelled : labelled[p] = "conflict" /\ EndsWithMd(p)}
\* the step executes the item of p
Executes(p) == p \in todo /\ p \notin todo'

\* C2: sync idempotence: a BOTH pass that follows a BOTH pass (one that
\* ended without errors) with no external mutation in between ends with
\* downloaded = 0 and uploaded = 0.
C2_SecondPassMovesNothing ==
    (pc = "idle" /\ second) => (stats.downloaded = 0 /\ stats.uploaded = 0)

\* C2: a second BOTH pass has ended after counting a directory that exists
\* on both sides as downloaded or uploaded, every file having been skipped
C2_DirectoryCountedAgain ==
    /\ pc = "idle" /\ second
    /\ stats.downloaded + stats.uploaded > 0
    /\ \A p \in DOMAIN labelled : EndsWithMd(p) => labelled[p] = "skip"

\* C3: in a BOTH pass, a file labelled CONFLICT whose local file exists is
\* counted in conflicts, is backed up before the download is invoked, and
\* after the pass its local content equals the cloud content (stated for
\* the passes in which the backup copy itself did not fail).
C3_BothConflictKeepsBothVersions ==
    (pc = "idle" /\ direction = "both") =>
        \A i \in items :
            (/\ i.action = "conflict" /\ ~i.is_dir /\ i.local_mtime # None
             /\ ~Logged(i.relative_path, "backup_failed")) =>
                /\ stats.conflicts = Cardinality({j \in items : j.action = "conflict"
                                                                 /\ ~j.is_dir})
                /\ BackupsOf(local, i.relative_path) # {}
                /\ LoggedBefore(i.relative_path, "backup_ok", "download_call")
                /\ i.relative_path \in DOMAIN local
                /\ i.cloud_id \in DOMAIN cloud
                /\ local[i.relative_path].content = cloud[i.cloud_id].content

\* C3: a BOTH pass has resolved a conflict: the backup was made, the download
\* call raised, and the local content still differs from the cloud's
C3_ConflictLeftUnresolved ==
    /\ pc = "idle" /\ direction = "both"
    /\ \E i \in items :
          /\ i.action = "conflict" /\ ~i.is_dir
          /\ LoggedBefore(i.relative_path, "backup_ok", "download_raised")
          /\ local[i.relative_path].content # cloud[i.cloud_id].content

\* C4: whenever the resolution of an item labelled CONFLICT changes or
\* removes the local file, a backup holding the file's previous content
\* exists next to it afterwards; this holds in every direction and when the
\* backup copy fails.
C4_NoOverwriteWithoutBackup ==
    [][\A p \in ConflictFiles :
          (/\ Executes(p)
           /\ p \in DOMAIN local
           /\ (p \notin DOMAIN local' \/ local'[p] # local[p])) =>
              \E b \in BackupsOf(local', p) : local'[b].content = local[p].content]_vars

\* C4: a conflict has been resolved with a failed backup copy, and the local
\* file is still on disk
C4_BackupFailedFileKept ==
    \E p \in ConflictFiles :
        /\ Logged(p, "backup_failed")
        /\ p \notin todo
        /\ p \in DOMAIN local
        /\ BackupsOf(local, p) = {}

\* C5: at the end of a PULL or PUSH pass every file labelled CONFLICT has
\* been counted in conflicts, backed up when it exists locally, and then
\* downloaded (PULL) or uploaded (PUSH).
C5_PullPushResolveConflicts ==
    (pc = "idle" /\ direction \in {"pull", "push"}) =>
        /\ stats.conflicts = Cardinality(ConflictFiles)
        /\ \A p \in ConflictFiles :
              /\ (p \in DOMAIN local /\ direction = "pull") =>
                    (Logged(p, "backup_ok") \/ Logged(p, "backup_failed"))
              /\ direction = "pull" => Logged(p, "download_call")
              /\ direction = "push" => OpsOf(p) # <<>>

\* C5: a PULL or PUSH pass has ended with a file labelled CONFLICT that was
\* neither counted nor touched
C5_ConflictDropped ==
    /\ pc = "idle" /\ direction \in {"pull", "push"}
    /\ \E p \in ConflictFiles : OpsOf(p) = <<>> /\ stats.conflicts = 0

\* C6: a conflict backup never becomes a sync item and is never uploaded:
\* no pass holds an item for a path whose name contains .conflict., and no
\* cloud node carries such a name.
C6_BackupsNeverSynced ==
    /\ \A i \in items : ~ContainsConflict(i.relative_path)
    /\ \A n \in DOMAIN cloud : ~ContainsConflict(cloud[n].path)

\* C6: a conflict backup has been pushed to the cloud as a note of its own
C6_BackupUploaded ==
    \E n \in DOMAIN cloud : ContainsConflict(cloud[n].path)

\* C7: from empty metadata and an empty local directory, with one cloud
\* file, a BOTH pass ends with downloaded = 1 and errors = 0, the file on
\* disk with the cloud's mtime, and a record holding the cloud id.
OnlyCloudPass ==
    /\ pc = "idle" /\ passes = 1 /\ ext = 1 /\ direction = "both"
    /\ \E i \in items : items = {i} /\ ~i.is_dir /\ i.local_mtime = None
                        /\ i.cloud_id \in DOMAIN cloud
C7_OnlyCloudDownload ==
    OnlyCloudPass =>
        \A i \in items :
            LET p == i.relative_path
            IN /\ stats.downloaded = 1
               /\ stats.errors = 0
               /\ p \in DOMAIN local
               /\ local[p].mtime = cloud[i.cloud_id].mtime
               /\ get_file_info(metadata, p).present
               /\ get_file_info(metadata, p).file_id = i.cloud_id

\* C7: the only-cloud pass has ended with one error, nothing downloaded, no
\* local file and no record
C7_OnlyCloudDownloadRaised ==
    /\ OnlyCloudPass
    /\ \A i \in items :
          /\ stats.errors = 1 /\ stats.downloaded = 0
          /\ i.relative_path \notin DOMAIN local
          /\ ~get_file_info(metadata, i.relative_path).present
          /\ LastOp(ops, i.relative_path) = "download_raised"

\* C8: after a successful upload or download of a file p within a pass, the
\* record of p has a non-empty file_id, its local_mtime is the mtime of p
\* on disk, and its cloud_mtime is the modification time the cloud reported
\* for the operation (when the cloud reported one).
C8_RecordMatchesAfterSuccess ==
    [][\A p \in DOMAIN local' :
          (/\ Executes(p)
           /\ EndsWithMd(p)
           /\ \/ stats'.uploaded = stats.uploaded + 1
              \/ stats'.downloaded = stats.downloaded + 1) =>
              LET r == get_file_info(metadata', p)
              IN /\ r.present
                 /\ r.file_id # EmptyId
                 /\ r.local_mtime = local'[p].mtime
                 /\ LastOp(ops', p) # "push_unstamped" =>
                       /\ r.file_id \in DOMAIN cloud'
                       /\ r.cloud_mtime = cloud'[r.file_id].mtime]_vars

\* C8: an upload has succeeded for a file whose mtime on disk differs from
\* the time the cloud reported, and the record holds the two apart
C8_UploadRecorded ==
    \E p \in DOMAIN ops :
        LET r == get_file_info(metadata, p)
        IN /\ LastOp(ops, p) \in {"push_create", "push_save"}
           /\ stats.uploaded > 0
           /\ p \in DOMAIN local
           /\ r.present /\ r.file_id \in DOMAIN cloud
           /\ r.local_mtime = local[p].mtime
           /\ r.cloud_mtime = cloud[r.file_id].mtime
           /\ r.local_mtime # r.cloud_mtime

\* the step executes p's item and the execution fails
FailsOn(p) == Executes(p) /\ LastOp(ops', p) \in FailureTags
\* the failed execution of p's item counts one error and leaves p's record
RecordKeptOnFailure ==
    \A p \in DOMAIN ops' :
        FailsOn(p) => /\ stats'.errors = stats.errors + 1
                      /\ get_file_info(metadata', p) = get_file_info(metadata, p)

RenameAge == passes - renamed.at
\* a rename of a synced file has been followed by BOTH passes only, each
\* with a complete cloud listing, and nothing else has changed
RenameFollowed == renamed # NoRename /\ renamed.clean

\* C11: rename convergence: after a synced file is moved locally and nothing
\* else changes, the second BOTH pass has ended with no record left for the
\* old path and the file still at the new path, and every later pass ends
\* with downloaded = 0 and uploaded = 0.
C11_RenameConverges ==
    (pc = "idle" /\ RenameFollowed /\ RenameAge >= 2) =>
        /\ ~get_file_info(metadata, renamed.old).present
        /\ renamed.new \in DOMAIN local
        /\ RenameAge >= 3 => (stats.downloaded = 0 /\ stats.uploaded = 0)

\* C11: two BOTH passes have run since the rename: the last one tried to
\* download the old path again and short-circuited the upload of the new
\* path, and the record of the old path is still in the store
C11_OldRecordKept ==
    /\ pc = "idle" /\ RenameFollowed /\ RenameAge >= 2
    /\ get_file_info(metadata, renamed.old).present
    /\ LastOp(ops, renamed.old) = "download_raised"
    /\ LastOp(ops, renamed.new) = "upload_shortcut"
    /\ stats.downloaded = 0 /\ stats.uploaded = 0

\* the step leaves every cloud node it does not delete as it was, and adds none
NoCloudWrite == \A n \in DOMAIN cloud' : n \in DOMAIN cloud /\ cloud'[n] = cloud[n]

\* C12: direction filter: a PUSH pass holds only UPLOAD and SKIP items, keeps
\* downloaded at 0 and its execute steps leave the local tree as it is; a
\* PULL pass holds only DOWNLOAD and SKIP items, keeps uploaded at 0 and
\* pushes nothing and creates no directory in the cloud.
C12_DirectionFilter ==
    [][/\ (direction = "push" /\ pc \in {"dirs", "files"}) =>
             /\ \A i \in items : i.action \in {"upload", "skip"}
             /\ stats'.downloaded = 0
             /\ pc' # "idle" => local' = local
       /\ (direction = "pull" /\ pc \in {"dirs", "files"}) =>
             /\ \A i \in items : i.action \in {"download", "skip"}
             /\ stats'.uploaded = 0
             /\ NoCloudWrite
             /\ \A p \in DOMAIN ops' :
                   ~\E k \in 1..Len(ops'[p]) :
                       ops'[p][k] \in {"push_create", "push_save", "push_unstamped",
                                       "push_failed"}]_vars

\* C12: a PUSH pass has uploaded a file and has left out an item that the
\* scan had labelled DOWNLOAD
C12_PushDroppedDownload ==
    /\ pc = "idle" /\ direction = "push"
    /\ stats.uploaded > 0 /\ stats.downloaded = 0
    /\ \E p \in DOMAIN labelled : labelled[p] = "download" /\ OpsOf(p) = <<>>

\* a sync() call has met a pass-level error: no session, or the listing of
\* the cloud root raised
PassLevelError == scan \in {"unauthenticated", "root_failed"}
\* the caller of sync() got the exception: sync() raises only where
\* get_root_dir_info_id does; _fetch_dir catches what the listing raises
Surfaced == scan = "unauthenticated"

\* C13: pass-level errors abort the pass: when the session is missing or the
\* cloud root cannot be listed, sync() raises to its caller and executes
\* nothing: no item is held or run, no call is made for any path.
C13_PassLevelErrorsAbort ==
    PassLevelError => (Surfaced /\ pc = "idle" /\ todo = {} /\ items = {} /\ ops = EmptyFn)

\* C13: a pass whose root listing raised has run to its end and has uploaded
\* a file
C13_UploadedAfterFailedListing ==
    /\ scan = "root_failed" /\ pc = "idle"
    /\ stats.uploaded > 0
    /\ \E p \in DOMAIN ops : LastOp(ops, p) \in {"push_create", "push_save"}

\* C14: per-item errors are local: the failed execution of a file item adds
\* exactly one to errors and a successful one adds none, the pass goes on
\* with the items that are left, and every pass runs to its end.
C14_ItemErrorsAreLocal ==
    /\ [][\A p \in todo :
             (Executes(p) /\ pc = "files") =>
                 /\ stats'.errors = stats.errors
                                    + (IF LastOp(ops', p) \in FailureTags THEN 1 ELSE 0)
                 /\ pc' = "files"
                 /\ todo' = todo \ {p}]_vars
    /\ (pc # "idle") ~> (pc = "idle" /\ todo = {})

\* C14: a pass has ended in which one file item failed and another one, run
\* after it, was uploaded
C14_FailureThenUpload ==
    /\ pc = "idle" /\ stats.errors = 1 /\ stats.uploaded >= 1
    /\ \E p, q \in DOMAIN ops :
          /\ p # q
          /\ LastOp(ops, p) \in FailureTags
          /\ LastOp(ops, q) \in {"push_create", "push_save"}


\* the file records and the directory records of the store
FileKeys == DictKeys(metadata.files)
DirKeys == DictKeys(metadata.directories)
\* the paths other than x whose record holds hash h and a non-empty file_id:
\* what a linear scan of the records finds
Holders(h, x) ==
    {p \in FileKeys : /\ p # x
                      /\ get_file_info(metadata, p).content_hash = h
                      /\ get_file_info(metadata, p).file_id # EmptyId}
\* the reverse index has an entry for h and it names a path whose record
\* does not hold h
StaleFor(h) ==
    /\ h \in DOMAIN metadata.hash_index
    /\ get_file_info(metadata, metadata.hash_index[h]).content_hash # h

\* C15: reverse index consistency: after any sequence of calls on the store,
\* for every file record with a non-empty file_id and a content hash h, the
\* reverse index has no entry for h or names a path whose record holds h.
C15_ReverseIndexConsistent ==
    \A p \in FileKeys :
        LET r == get_file_info(metadata, p)
        IN (r.file_id # EmptyId /\ r.content_hash # NoHash) => ~StaleFor(r.content_hash)

\* C15: a record was set again with another hash; the index still names its
\* path for the old hash, which another record with a file_id holds
C15_StaleEntryAfterSet ==
    /\ call.op = "set_file_info"
    /\ \E h \in StoreHashes :
          /\ StaleFor(h)
          /\ metadata.hash_index[h] = call.path
          /\ Holders(h, call.path) # {}

\* the lookup's answer for h and exclude x is the linear scan's
AgreesWithScan(h, x) ==
    LET f == find_cloud_file_by_hash(metadata, h, x).found
    IN IF Holders(h, x) = {} THEN f = NoPath ELSE f \in Holders(h, x)

\* C16: find_cloud_file_by_hash(h, exclude) agrees with a linear scan of the
\* file records in every reachable store state: it returns a path other
\* than exclude whose record holds h and a non-empty file_id when there is
\* one, and none only when there is none.
C16_FindAgreesWithScan ==
    \A h \in StoreHashes :
        \A x \in {normalize_path(p) : p \in IndexPaths} \cup {NoPath} : AgreesWithScan(h, x)

\* C16: a lookup that excluded the only holder of h has dropped the index
\* entry for h, and the next lookup of h, excluding nothing, finds none
C16_HolderNotFound ==
    /\ call.op = "find_cloud_file_by_hash"
    /\ call.path # NoPath
    /\ Holders(call.hash, NoPath) = {call.path}
    /\ call.hash \notin DOMAIN metadata.hash_index
    /\ find_cloud_file_by_hash(metadata, call.hash, NoPath).found = NoPath

\* C17: after remove_file(p), get_file_info(p) and get_file_id(p) return
\* none, the reverse index names p for no hash, and for the hash h that p
\* held find_cloud_file_by_hash(h) returns another holder of h with a
\* file_id when there is one and none otherwise.
C17_RemoveFileClearsPath ==
    call.op = "remove_file" =>
        /\ ~get_file_info(metadata, call.path).present
        /\ get_file_id(metadata, call.path) = EmptyId
        /\ \A h \in DOMAIN metadata.hash_index : metadata.hash_index[h] # call.path
        /\ call.hash # NoHash => AgreesWithScan(call.hash, NoPath)

\* C17: a path whose record had been set twice, with two hashes, has been
\* removed, and the index still names it for the first hash
C17_IndexNamesRemovedPath ==
    /\ call.op = "remove_file"
    /\ call.hash # NoHash
    /\ ~get_file_info(metadata, call.path).present
    /\ \E h \in DOMAIN metadata.hash_index :
          h # call.hash /\ metadata.hash_index[h] = call.path


\* the hashes stored on records that have a file_id
StoredHashes ==
    {get_file_info(metadata, p).content_hash :
        p \in {q \in FileKeys : /\ get_file_info(metadata, q).content_hash # NoHash
                                /\ get_file_info(metadata, q).file_id # EmptyId}}
\* a fresh instance is constructed on the file save() has just written
LoadsWhatWasSaved == call.op = "save" /\ call'.op = "load"

\* C18: metadata round trip: save() followed by load() on a fresh instance
\* raises nothing and yields get_all_files() and get_all_dirs() equal to the
\* store's before the save, unknown fields included, and the rebuilt index
\* answers find_cloud_file_by_hash(h) with a holder of h that has a file_id
\* for every hash h stored on such a record.
C18_SaveLoadRoundTrip ==
    [][LoadsWhatWasSaved =>
          /\ ~thrown'
          /\ get_all_files(metadata') = get_all_files(metadata)
          /\ get_all_dirs(metadata') = get_all_dirs(metadata)
          /\ \A h \in StoredHashes :
                find_cloud_file_by_hash(metadata', h, NoPath).found \in Holders(h, NoPath)]_vars

\* C18: a store that holds a file record with a file_id and a hash, and a
\* directory record, was saved and constructed again from the file
C18_SavedStoreReloaded ==
    /\ call.op = "load" /\ ~thrown
    /\ disk = JsonFile(to_json(metadata))
    /\ StoredHashes # {}
    /\ DirKeys # {}

\* the file has the shape {"files": {path: {...}}, "directories": {path:
\* {...}}}
WellShaped(c) ==
    /\ c.kind = "json"
    /\ c.value.t = "obj"
    /\ DictHas(c.value.d, "files") /\ DictHas(c.value.d, "directories")
    /\ DictGet(c.value.d, "files").t = "obj"
    /\ DictGet(c.value.d, "directories").t = "obj"
    /\ \A i \in 1..Len(DictGet(c.value.d, "files").d.val) :
          DictGet(c.value.d, "files").d.val[i].t = "obj"
\* the file is there and is malformed
Malformed(c) == c.kind # "absent" /\ ~WellShaped(c)

\* C19: loading never fails on malformed metadata: constructing the store on
\* a file that is unparseable, or parseable without the files/directories
\* object shape, raises nothing and yields an empty store: no file records,
\* no directory records, an empty reverse index.
C19_MalformedLoadsEmpty ==
    (call.op = "load" /\ Malformed(disk)) => (~thrown /\ metadata = EmptyMetadata)

\* C19: the store was constructed on a file holding a JSON array, and the
\* constructor raised
C19_ArrayFileRaised ==
    call.op = "load" /\ disk = JsonFile(JArr) /\ thrown

\* forward slashes only, no leading slash
IsCanonical(k) ==
    /\ \A i \in 1..Len(k.chars) : k.chars[i] # "\\"
    /\ Len(k.chars) > 0 => k.chars[1] # "/"
\* the relative path a spelling names: its names, whatever the separators
NamesOf(k) == SelectSeq(k.chars, LAMBDA c : c # "/" /\ c # "\\")
OneKeyPerPath(K) == \A k1, k2 \in K : NamesOf(k1) = NamesOf(k2) => k1 = k2

\* C20: canonical keys: after any sequence of store operations called with
\* arbitrary path strings, every key of the files map and of the directories
\* map is in canonical form (forward slashes only, no leading slash), and
\* two spellings of one relative path never yield two records.
C20_CanonicalKeys ==
    /\ \A k \in FileKeys \cup DirKeys : IsCanonical(k)
    /\ OneKeyPerPath(FileKeys)
    /\ OneKeyPerPath(DirKeys)

\* C20: set_file_info was called with "/p.md" after "p.md", and the files
\* map holds a record under each spelling
C20_TwoRecordsForOnePath ==
    /\ call.op = "set_file_info"
    /\ call.path = Spelled(<<"/", "p.md">>)
    /\ Spelled(<<"p.md">>) \in FileKeys
    /\ call.path \in FileKeys
    /\ ~IsCanonical(call.path)


(***************************************************************************)
(* C21                                                                     *)
(***************************************************************************)
\* C21: atomic save: whatever step of save() raises, and wherever the process
\* dies inside it, the metadata file is the complete document it held when
\* save() began or the complete new one, never a truncated one; a save that
\* failed leaves the previous file, one that returned True the new one.
C21_AtomicSave ==
    /\ disk # Truncated
    /\ (sv.pc # "idle" \/ sv.result # "none") => disk \in {sv.before, sv.doc}
    /\ sv.result \in {"false", "raised"} => disk = sv.before
    /\ sv.pc \in {"begun", "open", "dumping", "closed"} => disk = sv.before
    /\ sv.result = "true" => disk = sv.doc
\* the process died while json.dump was writing over a previous save
C21_CrashedWhileWriting ==
    /\ sv.result = "crashed"
    /\ sv.tmp = Truncated
    /\ sv.before.kind = "json"
    /\ sv.before # sv.doc
    /\ disk = sv.before


(***************************************************************************)
(* C22..C28: auto_dedup.  dd.before is the tree, the cloud, the store and  *)
(* the metadata file as they were when auto_dedup was called.              *)
(***************************************************************************)
WasFiles == SeqToSet(DedupFiles(dd.before))
\* the duplicate group of a path: the files filed under its hash that have
\* its size
WasGroupOf(p) ==
    {q \in WasFiles : /\ IndexedHash(dd.before, q) = IndexedHash(dd.before, p)
                      /\ Len(dd.before.local[q].content) = Len(dd.before.local[p].content)}
WasGroups == {G \in {WasGroupOf(p) : p \in WasFiles} : Cardinality(G) > 1}
\* files alone in their size class among several files of one hash
WasLone ==
    {p \in WasFiles : /\ WasGroupOf(p) = {p}
                      /\ \E q \in WasFiles \ {p} :
                            IndexedHash(dd.before, q) = IndexedHash(dd.before, p)}
WasCloudPath(p) ==
    /\ DictHas(dd.before.metadata.files, p)
    /\ DictGet(dd.before.metadata.files, p).file_id # EmptyId
WasRecorded(p) == DictHas(dd.before.metadata.files, p)
LocalOnlyGroups == {G \in WasGroups : \A p \in G : ~WasCloudPath(p)}
StillThere(p) ==
    /\ p \in DOMAIN local
    /\ local[p] = dd.before.local[p]
    /\ WasRecorded(p) => DictHas(metadata.files, p)

Scheduled(p) == \E a \in dd.actions : a.path = p
\* the cloud id an action carries for the path (0 when it carries none)
ScheduledId(p) == (CHOOSE a \in dd.actions : a.path = p).file_id

\* C22: in a duplicate group no path of which has a record with a non-empty
\* file_id, auto_dedup schedules no deletion, removes no local file and no
\* metadata record, and
\* counts the group as skipped; when every group is such a group it schedules
\* nothing (deleted, cloud_deleted and kept are 0).
C22_LocalOnlyGroupsSkipped ==
    dd.done =>
        /\ \A G \in LocalOnlyGroups : \A p \in G : StillThere(p) /\ ~Scheduled(p)
        /\ dd.stats.skipped >= Cardinality(LocalOnlyGroups)
        /\ LocalOnlyGroups = WasGroups =>
              /\ dd.stats.skipped = Cardinality(WasGroups) + Cardinality(WasLone)
              /\ dd.stats.deleted = 0 /\ dd.stats.cloud_deleted = 0 /\ dd.stats.kept = 0
              /\ local = dd.before.local /\ cloud = dd.before.cloud
\* a real run met a group of two recorded files without cloud id
C22_LocalOnlyGroupMet ==
    /\ dd.done /\ ~dd.dry_run
    /\ \E G \in LocalOnlyGroups : (\E p \in G : WasRecorded(p)) /\ (\E p \in G : ~WasRecorded(p))
    /\ dd.stats.skipped = 1 /\ dd.stats.groups = 1


\* the hash of a group is the digest of no bytes; its files are empty
EmptyContent(G) == \E p \in G : IndexedHash(dd.before, p) = EMPTY_MD5
MixedGroups ==
    {G \in WasGroups : /\ ~EmptyContent(G)
                       /\ \E p \in G : WasCloudPath(p)
                       /\ \E p \in G : ~WasCloudPath(p)}
ReferencedAsset(p) == p.ext = ".png" /\ p \in referenced(dd.before)
Removed(p) == p \notin DOMAIN local /\ ~DictHas(metadata.files, p)
RemovedFiles == {p \in WasFiles : p \notin DOMAIN local}

\* C23: in a real run, of a duplicate group with at least one path with a
\* non-empty file_id and at least one without, every path with a file_id is
\* kept, every path without one is removed from disk and from the store
\* unless it is a referenced asset (or its removal failed and it is as it
\* was), no cloud node of the group is deleted, and deleted is the number of
\* local files actually removed.
C23_MixedGroup ==
    (dd.done /\ ~dd.dry_run /\ MixedGroups # {}) =>
        /\ \A G \in MixedGroups : \A p \in G :
              IF WasCloudPath(p) \/ ReferencedAsset(p)
              THEN /\ StillThere(p)
                   /\ WasCloudPath(p) =>
                         DictGet(dd.before.metadata.files, p).file_id \in DOMAIN cloud
              ELSE /\ Removed(p) \/ StillThere(p)
                   /\ Scheduled(p) /\ ScheduledId(p) = EmptyId
        /\ MixedGroups = WasGroups => cloud = dd.before.cloud
        /\ dd.stats.deleted = Cardinality(RemovedFiles)
\* the copy in a/ of a synced file was removed, a/ could not be, and the
\* call reports no deletion
C23_RemovedButNotCounted ==
    /\ dd.done /\ ~dd.dry_run
    /\ MixedGroups = {{File("", "p"), File("a", "p")}}
    /\ WasCloudPath(File("", "p"))
    /\ Removed(File("a", "p"))
    /\ Dir("a") \in DOMAIN local
    /\ dd.stats.deleted = 0


AllCloudTextGroups ==
    {G \in WasGroups : /\ ~EmptyContent(G)
                       /\ \A p \in G : WasCloudPath(p) /\ p.ext # ".png"}
WasCreateTime(p) == DictGet(dd.before.metadata.files, p).create_time
\* a path's score is not below another's: greater depth, then shorter
\* basename, then earlier create time (where both have one recorded)
ScoresAtLeast(k, q) ==
    \/ Depth(k) > Depth(q)
    \/ Depth(k) = Depth(q) /\ BasenameLen(k) < BasenameLen(q)
    \/ /\ Depth(k) = Depth(q) /\ BasenameLen(k) = BasenameLen(q)
       /\ (WasCreateTime(k) > 0 /\ WasCreateTime(q) > 0) => WasCreateTime(k) <= WasCreateTime(q)
ToDelete == Cardinality({p \in WasFiles : Scheduled(p)})
\* no scheduled removal failed: the paths are gone with their emptied
\* directories
AllRemoved ==
    /\ \A p \in WasFiles : Scheduled(p) => Removed(p)
    /\ \A d \in DOMAIN local : local[d].is_dir => \E p \in DOMAIN local : p.dir = d.stem

\* C24: of a duplicate group all of whose paths have a non-empty file_id and
\* none of which is an asset, exactly one path is kept, one whose score no
\* other's exceeds, and every other path is scheduled for deletion with its
\* cloud id; when every group is such a group kept is 1 per group and deleted
\* and cloud_deleted count the paths scheduled (group size - 1 per group):
\* that is what a dry run reports, and a real run in which no removal fails.
C24_AllCloudTextGroup ==
    (dd.done /\ AllCloudTextGroups # {}) =>
        /\ \A G \in AllCloudTextGroups :
              \E k \in G :
                  /\ \A q \in G : ScoresAtLeast(k, q)
                  /\ ~Scheduled(k) /\ StillThere(k)
                  /\ \A q \in G \ {k} :
                        /\ Scheduled(q)
                        /\ ScheduledId(q) = DictGet(dd.before.metadata.files, q).file_id
                        /\ dd.dry_run \/ Removed(q) \/ StillThere(q)
        /\ AllCloudTextGroups = WasGroups =>
              /\ dd.stats.kept = Cardinality(WasGroups)
              /\ ToDelete = Cardinality(UNION WasGroups) - Cardinality(WasGroups)
              /\ dd.stats.deleted <= ToDelete
              /\ (dd.dry_run \/ AllRemoved) => dd.stats.deleted = ToDelete
              /\ dd.dry_run => dd.stats.cloud_deleted = ToDelete
\* a real run on three synced copies of one text, two at the root created at
\* different times and one in a/: the one in a/ was kept, the others are
\* gone from the disk and from the cloud
C24_DeepestOfThreeKept ==
    /\ dd.done /\ ~dd.dry_run /\ dd.api
    /\ AllCloudTextGroups = {{File("", "p"), File("", "q"), File("a", "p")}}
    /\ WasCreateTime(File("", "p")) = 2 /\ WasCreateTime(File("", "q")) = 1
    /\ DOMAIN local = {Dir("a"), File("a", "p")}
    /\ Cardinality(DOMAIN cloud) = 1
    /\ dd.stats.deleted = 2 /\ dd.stats.kept = 1 /\ dd.stats.cloud_deleted = 2
\* a dry run on two synced copies of one text at the root, the later created
\* one first in the walk: the earlier created one is kept
C24_EarlierCreatedKept ==
    /\ dd.done /\ dd.dry_run
    /\ AllCloudTextGroups = {{File("", "p"), File("", "q")}}
    /\ WasCreateTime(File("", "p")) = 2 /\ WasCreateTime(File("", "q")) = 1
    /\ Scheduled(File("", "p")) /\ ~Scheduled(File("", "q"))


AllCloudAssetGroups ==
    {G \in WasGroups : /\ ~EmptyContent(G)
                       /\ \A p \in G : WasCloudPath(p)
                       /\ \E p \in G : p.ext = ".png"}

\* C25: in no duplicate group does auto_dedup schedule or delete a path that
\* is an asset by extension and is in the referenced set built from the
\* Markdown bodies; of an all-cloud group with an asset whose paths are all
\* referenced nothing is scheduled or deleted.
C25_ReferenceProtection ==
    dd.done =>
        /\ \A G \in WasGroups : \A p \in G :
              ReferencedAsset(p) => ~Scheduled(p) /\ StillThere(p)
        /\ \A G \in AllCloudAssetGroups :
              (\A p \in G : p \in referenced(dd.before)) =>
                  \A p \in G : ~Scheduled(p) /\ StillThere(p)
\* a real run in which i.png, unrecorded and linked from p.md, was kept next
\* to its synced copy a/i.png
C25_ReferencedCopyKept ==
    /\ dd.done /\ ~dd.dry_run
    /\ referenced(dd.before) = {Asset("", "i")}
    /\ WasGroups = {{Asset("", "i"), Asset("a", "i")}}
    /\ ~WasCloudPath(Asset("", "i")) /\ WasCloudPath(Asset("a", "i"))
    /\ StillThere(Asset("", "i")) /\ StillThere(Asset("a", "i"))
    /\ dd.stats.protected_refs = 1 /\ dd.stats.skipped = 1
\* a real run on two synced copies of an attachment, both linked from p.md:
\* the group was skipped
C25_AllReferencedSkipped ==
    /\ dd.done /\ ~dd.dry_run
    /\ AllCloudAssetGroups = {{Asset("", "i"), Asset("a", "i")}}
    /\ referenced(dd.before) = {Asset("", "i"), Asset("a", "i")}
    /\ dd.actions = {} /\ dd.stats.skipped = 1


SameHash(p, q) == IndexedHash(dd.before, p) = IndexedHash(dd.before, q)
SameBytes(p, q) == Len(dd.before.local[p].content) = Len(dd.before.local[q].content)

\* C26: a path is scheduled for deletion only when a path of the same hash
\* and the same byte size is kept, and a path whose size no other path of
\* its hash has is neither scheduled nor deleted: paths of equal hash and
\* different sizes are never duplicates of each other.
C26_CollisionGuard ==
    dd.done =>
        \A q \in WasFiles :
            /\ Scheduled(q) =>
                  \E k \in WasFiles \ {q} :
                      ~Scheduled(k) /\ StillThere(k) /\ SameHash(k, q) /\ SameBytes(k, q)
            /\ (\A k \in WasFiles \ {q} : SameHash(k, q) => ~SameBytes(k, q)) =>
                  ~Scheduled(q) /\ StillThere(q)
\* a real run on a synced text and an unrecorded copy that lacks its byte
\* order mark: same hash, different sizes, both kept and both counted skipped
C26_SameHashOtherSizeKept ==
    /\ dd.done /\ ~dd.dry_run
    /\ WasFiles = {File("", "p"), File("", "q")}
    /\ SameHash(File("", "p"), File("", "q")) /\ ~SameBytes(File("", "p"), File("", "q"))
    /\ WasCloudPath(File("", "p")) /\ ~WasCloudPath(File("", "q"))
    /\ StillThere(File("", "p")) /\ StillThere(File("", "q"))
    /\ dd.stats.skipped = 2 /\ dd.stats.groups = 0


\* the files whose normalized content hashes to the digest of no bytes
EmptyHashFiles ==
    {p \in WasFiles : compute_content_hash(dd.before.local[p].content) = EMPTY_MD5}

\* C27: a group of two or more files whose normalized content hash is the
\* empty-content MD5 is never deduplicated, whatever their byte sizes and
\* cloud ids: none of its paths is scheduled or deleted.
C27_EmptyContentSkipped ==
    (dd.done /\ Cardinality(EmptyHashFiles) >= 2) =>
        \A p \in EmptyHashFiles : ~Scheduled(p) /\ StillThere(p)
\* a real run on a synced file that holds a byte order mark and nothing
\* else, and an unrecorded copy of it: the copy was deleted
C27_BomOnlyCopyDeleted ==
    /\ dd.done /\ ~dd.dry_run
    /\ EmptyHashFiles = {File("", "p"), File("", "q")}
    /\ dd.before.local[File("", "p")].content = <<"BOM">>
    /\ dd.before.local[File("", "q")].content = <<"BOM">>
    /\ WasCloudPath(File("", "p")) /\ ~WasCloudPath(File("", "q"))
    /\ Removed(File("", "q"))
    /\ dd.stats.deleted = 1 /\ dd.stats.skipped = 0


\* C28: auto_dedup called with dry_run = true leaves the local files, the
\* cloud, the store in memory (records, content hashes, reverse index) and
\* the metadata file on disk as they were, whatever the cached hashes are.
C28_DryRunNoSideEffects ==
    (dd.done /\ dd.dry_run) =>
        /\ local = dd.before.local
        /\ cloud = dd.before.cloud
        /\ metadata = dd.before.metadata
        /\ disk = dd.before.disk
\* a dry run on a file whose record had no content hash: the record has one
\* now, in memory and in the metadata file
C28_DryRunWroteHash ==
    /\ dd.done /\ dd.dry_run
    /\ WasFiles = {File("", "p")}
    /\ local = dd.before.local
    /\ DictGet(dd.before.metadata.files, File("", "p")).content_hash = NoHash
    /\ DictGet(metadata.files, File("", "p")).content_hash
           = compute_content_hash(local[File("", "p")].content)
    /\ DOMAIN dd.before.metadata.hash_index # DOMAIN metadata.hash_index
    /\ disk = JsonFile(to_json(metadata))
    /\ disk # dd.before.disk


(***************************************************************************)
(* C29, C30: the watcher                                                   *)
(***************************************************************************)

\* C29: at no time are two passes of the watcher in progress, and the flag
\* _syncing is set exactly while one is; nothing that happens during a pass
\* (an event, an entry maturing, the poll interval elapsing) starts a pass
\* or adds to anything but the pending map and the clock; and the step that
\* ends a pass, by return or by raise, clears the flag.
C29_SingleFlight ==
    /\ [](wt.in_progress <= 1 /\ (wt.syncing <=> wt.in_progress = 1)
          /\ (wt.syncing <=> wt.pc = "pass"))
    /\ [][wt.pc = "pass" =>
            /\ wt'.in_progress <= wt.in_progress
            /\ wt'.pc # "pass" => ~wt'.syncing /\ wt'.in_progress = 0
            /\ wt'.pc = "pass" =>
                  [wt' EXCEPT !.pending = wt.pending, !.clock = wt.clock, !.hist = wt.hist,
                              !.events = wt.events, !.running = wt.running] = wt]_vars
\* a pass is in progress while an entry has matured and the poll interval
\* has elapsed
C29_TriggersDuringPass ==
    /\ wt.pc = "pass" /\ wt.reason = "ready"
    /\ ready_paths(wt.pending, wt.clock) # {}
    /\ wt.clock - wt.last_poll >= PollInterval

\* C30: while the watcher keeps running, an accepted event for a path, with
\* no later event for the path, leads to the entry's removal from the
\* pending map and a pass started after it, whether or not a pass was in
\* progress when the event arrived.
C30_NoChangeLost ==
    \A p \in {"p.md", "q.md"}, n \in 1..MaxEvents :
        (wt.running /\ p \in DOMAIN wt.pending /\ hist_of(wt.hist, p).events = n)
            ~> \/ ~wt.running \/ wt.pc = "raised"
               \/ hist_of(wt.hist, p).events > n
               \/ p \notin DOMAIN wt.pending /\ wt.pc = "pass" /\ wt.reason = "ready"
\* an event for p.md arrived during the startup pass
C30_EventDuringPass ==
    /\ wt.running /\ wt.pc = "pass" /\ wt.reason = "startup"
    /\ "p.md" \in DOMAIN wt.pending


\* C31: an entry leaves the pending map, for a pass on local changes, only
\* when debounce_seconds or more have passed since the latest accepted event
\* of its path; an accepted event for a path keeps one entry for it, with
\* the time of the event; every entry that is mature at the scan leaves in
\* the same step, and the pass called for them starts once; and no path has
\* had more passes than bursts of events, a burst being events that follow
\* one another within debounce_seconds.
C31_Debounce ==
    /\ [](\A p \in DOMAIN wt.hist : wt.hist[p].passes <= wt.hist[p].bursts)
    /\ [][/\ \A p \in DOMAIN wt.pending :
                (p \notin DOMAIN wt'.pending) =>
                   (/\ wt.clock - wt.hist[p].last >= Debounce
                    /\ wt'.pc = "call" /\ wt'.reason = "ready" /\ p \in wt'.ready
                    /\ \A q \in DOMAIN wt.pending :
                          (wt.now - wt.pending[q] >= Debounce) =>
                              (q \notin DOMAIN wt'.pending))
          /\ (wt'.hist # wt.hist /\ wt'.pc = wt.pc) =>
                (\E p \in DOMAIN wt'.pending :
                   /\ DOMAIN wt'.pending = DOMAIN wt.pending \cup {p}
                   /\ wt'.pending[p] = wt.clock /\ wt'.hist[p].last = wt.clock)
          /\ (wt.pc = "call" /\ wt.reason = "ready") =>
                (/\ (wt'.pc = "pass") => (wt'.in_progress = wt.in_progress + 1)
                 /\ (wt'.pc \notin {"call", "stopped"}) => (wt'.pc = "pass"))]_vars
\* two events for p.md within debounce_seconds of each other: the one pass
\* for the path is in progress and nothing is pending
C31_BurstOnePass ==
    /\ wt.pc = "pass" /\ wt.reason = "ready" /\ wt.ready = {"p.md"}
    /\ wt.pending = EmptyFn /\ wt.in_progress = 1
    /\ wt.hist["p.md"].events = 2 /\ wt.hist["p.md"].bursts = 1
    /\ wt.hist["p.md"].passes = 1

\* a stop has been asked for and start() has not returned yet
StopRequested == ~wt.running /\ wt.pc \notin {"stopped", "raised"}

\* C32: once stop() has been called or the watcher has been interrupted, no
\* pass starts; a pass in progress at that time ends by itself, before
\* start() is left; when start() has been left the observer is stopped; and
\* a stop request leads to the end of the loop.
C32_Shutdown ==
    /\ [](~wt.aborted)
    /\ [](wt.pc \in {"stopped", "raised"} => ~wt.observer)
    /\ [][StopRequested => wt'.in_progress <= wt.in_progress]_vars
    /\ [][wt.pc = "pass" => wt'.pc \notin {"stopped", "raised"}]_vars
    /\ (StopRequested ~> wt.pc \in {"stopped", "raised"})
\* stop() was called, the loop went on to the poll check, the poll interval
\* had elapsed, and the poll pass is in progress
C32_PassAfterStop ==
    /\ wt.pc = "pass" /\ wt.reason = "poll" /\ wt.late
    /\ ~wt.running /\ wt.observer /\ ~wt.aborted

(***************************************************************************)
(* The claims on the pass with its pool.                                   *)
(***************************************************************************)
\* C33: directories before files, parents before children: no file item is
\* handed to the pool while a directory item is still to be executed, and
\* the directory items are executed by increasing depth, so that no
\* directory is executed while its parent directory is still to come.
C33_DirsByDepth ==
    /\ [](pc = "pool" => \A q \in todo : ~ItemOf(q).is_dir)
    /\ [][\A p \in todo \ todo' :
            (pc = "dirs" /\ ItemOf(p).is_dir)
                => /\ \A q \in todo : ItemOf(q).is_dir => Depth(q) >= Depth(p)
                   /\ Dirname(p) \notin todo]_vars
\* a/b has been made locally, and a with it, while the item of a is still
\* to be executed
C33_ChildDirFirst ==
    /\ pc = "dirs"
    /\ Dir("a") \in todo
    /\ SubDir("a", "b") \notin todo
    /\ SubDir("a", "b") \in DOMAIN local
    /\ Dir("a") \in DOMAIN local
    /\ stats.downloaded = 1

\* C34: metadata mutations and save() are mutually exclusive: while the pool
\* runs, the store is written by lock holders only, the store does not
\* change while a save() serializes it, and every file a save() writes is a
\* document of a state the store has had.
C34_SaveExcludesWrites ==
    /\ [](~pool.bare)
    /\ [][(\E t \in Workers : pool.th[t].pc = "dump") => metadata' = metadata]_vars
    /\ [][(pc = "pool" /\ pc' = "pool" /\ disk' # disk)
            => (disk'.kind = "json" /\ disk'.value \in pool'.docs)]_vars
\* one worker serializes the store under the lock for its batch save, and
\* the store has changed since json.dump began: another worker's upload has
\* recorded its file without the lock
C34_WriteDuringSave ==
    \E t \in Workers :
        /\ pool.th[t].pc = "dump"
        /\ pool.th[t].after = "done"
        /\ pool.lock = t
        /\ pool.bare
        /\ DictKeys(metadata.files) # DictKeys(pool.th[t].began.files)

\* C35: final save: when a pass ends, every record the pass has put into
\* the store, file records and directory records alike, is in the metadata
\* file: the file holds the document of the store (no file only while the
\* store is still empty).
C35_FinalSave ==
    [][(pc = "pool" /\ pc' = "idle")
         => \/ disk' = JsonFile(to_json(metadata'))
            \/ disk' = NoFile /\ metadata' = EmptyMetadata]_vars
\* a pass of one directory item, labelled upload, has ended: the store
\* holds the directory's record and no metadata file has been written
C35_DirRecordUnsaved ==
    /\ pc = "idle"
    /\ passes = 1
    /\ DOMAIN labelled = {Dir("a")}
    /\ labelled[Dir("a")] = "upload"
    /\ stats.uploaded = 1
    /\ get_dir_id(metadata, Dir("a")) # EmptyId
    /\ disk = NoFile

\* the paths the workers are at
InFlight == {pool.th[t].path : t \in {u \in Workers : pool.th[u].pc # "idle"}}

\* C36: at most one operation per path: each path a scan has found is in
\* exactly one item of the pass, also when two cloud entries are kept under
\* one local path, and never are two workers at the same path, nor is a
\* path a worker is at still queued.
C36_OneItemPerPath ==
    /\ \A i, j \in items : i.relative_path = j.relative_path => i = j
    /\ {i.relative_path : i \in items} = DOMAIN labelled
    /\ \A t, u \in Workers :
          (t # u /\ pool.th[t].pc # "idle" /\ pool.th[u].pc # "idle")
              => pool.th[t].path # pool.th[u].path
    /\ \A i \in pool.queue : i.relative_path \notin InFlight
    /\ \A i, j \in pool.queue : i.relative_path = j.relative_path => i = j
\* the cloud holds p.note and p.md, both kept locally as p.md, and a worker
\* is at the one item of p.md while the other worker is free
C36_NoteAndMd ==
    /\ pc = "pool"
    /\ Cardinality({i \in DOMAIN cloud : local_rel(cloud[i].path) = File("", "p")}) = 2
    /\ Cardinality(items) = 1
    /\ InFlight = {File("", "p")}
    /\ pool.queue = {}

\* C39: directory creation is not duplicated under concurrency: for a
\* missing cloud parent directory that several workers of a pass need,
\* create_dir is called at most once, the cloud holds one directory of that
\* name, and all the uploads into it are pushed with the same parent id.
C39_CreateDirOnce ==
    /\ \A d \in DOMAIN pool.creates : pool.creates[d] <= 1
    /\ \A d \in DOMAIN pool.creates : Cardinality(CloudDirsNamed(World, RootId, d.stem)) <= 1
    /\ \A p, q \in DOMAIN pool.parents :
          Dirname(p) = Dirname(q) => pool.parents[p] = pool.parents[q]
\* both workers have found no record of a/ and have each called create_dir
\* for it; the second call was answered with the id the first had made
C39_TwoCreateCalls ==
    /\ pc = "pool"
    /\ Count(pool.creates, Dir("a")) = 2
    /\ \A t \in Workers : pool.th[t].pc \in {"dump", "push"}
    /\ \A t, u \in Workers : pool.th[t].parent_id = pool.th[u].parent_id
    /\ Cardinality(CloudDirsNamed(World, RootId, "a")) = 1

(***************************************************************************)
(* The claims on uploads and on failed listings.                           *)
(***************************************************************************)
\* the cloud's file nodes kept locally as p
NodesAt(c, p) == {i \in DOMAIN c : ~c[i].is_dir /\ local_rel(c[i].path) = p}

\* C38: no duplicate cloud node on upload: a step of a pass creates a file
\* node only for a path that has no node in the cloud, an upload of a path
\* that has one saves into that node, and so no path ever has two nodes.
C38_NoDuplicateNode ==
    /\ [](\A p \in UserFiles : Cardinality(NodesAt(cloud, p)) <= 1)
    /\ [][pc = "files"
            => \A i \in DOMAIN cloud' \ DOMAIN cloud :
                  ~cloud'[i].is_dir => NodesAt(cloud, local_rel(cloud'[i].path)) = {}]_vars
    /\ [][\A p \in UserFiles :
            (pc = "files" /\ p \in todo \ todo' /\ NodesAt(cloud, p) # {}
                /\ LastOp(ops', p) \in {"push_create", "push_save", "push_unstamped"})
                => \E i \in NodesAt(cloud, p) : cloud'[i].mtime = now]_vars
\* p.md had a node in the cloud and no record, the local file being the
\* newer; its upload was pushed as a create, and the cloud holds two nodes
\* of p.md
C38_SecondNode ==
    /\ pc = "files"
    /\ File("", "p") \in DOMAIN labelled
    /\ labelled[File("", "p")] = "upload"
    /\ LastOp(ops, File("", "p")) = "push_create"
    /\ Cardinality(NodesAt(cloud, File("", "p"))) = 2
    /\ \E item \in items :
          item.relative_path = File("", "p") /\ item.cloud_id \in NodesAt(cloud, File("", "p"))

\* the pass has pushed p to the cloud
PushedInPass(p) ==
    /\ p \in DOMAIN ops
    /\ \E k \in 1..Len(ops[p]) : ops[p][k] \in {"push_create", "push_save", "push_unstamped"}

\* C40: a failed cloud listing is not read as absence: in a pass whose
\* listing of a cloud directory failed, no local file under that directory
\* is labelled UPLOAD and pushed, and the errors counter of the pass is not
\* zero.
C40_FailedListingNotAbsence ==
    scan = "root_failed"
        => /\ \A p \in DOMAIN labelled : ~(labelled[p] = "upload" /\ PushedInPass(p))
           /\ stats.errors > 0
\* the listing of the root failed in a pass; p.md, which has a node in the
\* cloud, was labelled upload and pushed as a new node, and the pass has
\* ended with errors = 0
C40_PushedWhatTheCloudHolds ==
    /\ scan = "root_failed"
    /\ pc = "idle"
    /\ stats.errors = 0
    /\ File("", "p") \in DOMAIN labelled
    /\ labelled[File("", "p")] = "upload"
    /\ PushedInPass(File("", "p"))
    /\ Cardinality(NodesAt(cloud, File("", "p"))) = 2

\* C37: paged listing is complete and terminates: a call of
\* get_dir_info_by_id on a directory of n entries returns, and what it
\* returns is every entry exactly once, for every n, multiples of the page
\* size included, whether or not the answers carry the count field.
C37_PagedListingComplete ==
    /\ [](pg.pc = "done" => pg.all_entries = [i \in 1..pg.n |-> i])
    /\ (pg.pc = "request" ~> pg.pc = "done")
\* a directory of one entry more than a page: the first answer had no count
\* field, and the call has returned the first page alone
C37_FirstPageOnly ==
    /\ pg.pc = "done"
    /\ pg.n = DIR_PAGE_SIZE + 1
    /\ pg.omitted
    /\ pg.all_entries = [i \in 1..DIR_PAGE_SIZE |-> i]
====
